---------------------------- MODULE Spec2Model ----------------------------
(***************************************************************************)
(* FontParser (font-parser.js): binary font decoder and outline-to-path    *)
(* pipeline.  The parser object is modelled as a state machine whose       *)
(* variables are the object's fields; the decoders (binary cursor,         *)
(* TrueType simple/composite glyphs, CFF CharStrings, blender, path        *)
(* emitter) are operators that compute what the JavaScript computes.       *)
(*                                                                         *)
(* Numbers.  Font coordinates are integers.  Blended coordinates are the   *)
(* rationals x*wdth/100 and y*(1+(wght-150)/1500); they are kept exactly   *)
(* as numerators over the fixed denominators XDen and YDen.  Emitted path  *)
(* coordinates are numerators over XUnit and YUnit (which also absorb the  *)
(* /2 of implied midpoints and the 0.3 of the space advance).  NaN is one  *)
(* absorbing value; a JavaScript undefined that reaches arithmetic is NaN. *)
(***************************************************************************)
EXTENDS Integers, Sequences, FiniteSets, TLC

(***************************************************************************)
(* Numeric helpers                                                         *)
(***************************************************************************)
NaN == 0 - 99999999

IsNum(a) == a # NaN

Add(a, b) == IF a = NaN \/ b = NaN THEN NaN ELSE a + b

Mul(a, b) == IF a = NaN \/ b = NaN THEN NaN ELSE a * b

Neg(a) == IF a = NaN THEN NaN ELSE 0 - a

\* Math.min / Math.max: NaN if either argument is NaN
MathMin(a, b) == IF a = NaN \/ b = NaN THEN NaN ELSE IF a < b THEN a ELSE b

MathMax(a, b) == IF a = NaN \/ b = NaN THEN NaN ELSE IF a > b THEN a ELSE b

Pow2(k) == 2 ^ k

\* (v & (1 << k)) !== 0
Bit(v, k) == (v \div Pow2(k)) % 2 = 1

Last(s) == s[Len(s)]

RECURSIVE SeqSum(_)
SeqSum(s) == IF s = <<>> THEN 0 ELSE Head(s) + SeqSum(Tail(s))

(***************************************************************************)
(* Binary cursor: reads over a byte buffer (offset o is buf[o+1]).         *)
(* A read returns [ok, err, val, off]; ok = FALSE models the thrown Error. *)
(***************************************************************************)
Throw(kind) == [ok |-> FALSE, err |-> kind, val |-> 0, off |-> 0]

Ret(v, o) == [ok |-> TRUE, err |-> "none", val |-> v, off |-> o]

readUint8(buf, o) ==
  IF o >= Len(buf) THEN Throw("UnexpectedEnd") ELSE Ret(buf[o + 1], o + 1)

readInt8(buf, o) ==
  IF o >= Len(buf) THEN Throw("UnexpectedEnd")
  ELSE Ret(IF buf[o + 1] >= 128 THEN buf[o + 1] - 256 ELSE buf[o + 1], o + 1)

\* readUint16 refusing the last two bytes of the buffer
readUint16OffByOne(buf, o) ==
  IF o + 2 >= Len(buf) THEN Throw("UnexpectedEnd")
  ELSE Ret(buf[o + 1] * 256 + buf[o + 2], o + 2)

readUint16(buf, o) ==
  IF o + 1 >= Len(buf) THEN Throw("UnexpectedEnd")
  ELSE Ret(buf[o + 1] * 256 + buf[o + 2], o + 2)

readInt16(buf, o) ==
  IF o + 1 >= Len(buf) THEN Throw("UnexpectedEnd")
  ELSE LET u == buf[o + 1] * 256 + buf[o + 2]
       IN  Ret(IF u >= 32768 THEN u - 65536 ELSE u, o + 2)

readUint32(buf, o) ==
  IF o + 3 >= Len(buf) THEN Throw("UnexpectedEnd")
  ELSE Ret(((buf[o + 1] * 256 + buf[o + 2]) * 256 + buf[o + 3]) * 256 + buf[o + 4],
           o + 4)

readInt32(buf, o) ==
  IF o + 3 >= Len(buf) THEN Throw("UnexpectedEnd")
  ELSE Ret((IF buf[o + 1] >= 128 THEN buf[o + 1] - 256 ELSE buf[o + 1]) * 16777216
           + (buf[o + 2] * 256 + buf[o + 3]) * 256 + buf[o + 4], o + 4)

\* readInt16() / 16384; the model's fonts only carry whole-number scales,
\* for which the quotient is exact
readF2Dot14(buf, o) ==
  LET scaled(r) == IF r.ok THEN Ret(r.val \div 16384, r.off) ELSE r
  IN  scaled(readInt16(buf, o))

seek(buf, o) ==
  IF o < 0 \/ o >= Len(buf) THEN Throw("OutOfRange") ELSE Ret(0, o)

\* the four character codes of a tag
readTag(buf, o) ==
  LET c1 == readUint8(buf, o)
      c2 == readUint8(buf, c1.off)
      c3 == readUint8(buf, c2.off)
      c4 == readUint8(buf, c3.off)
  IN  IF ~c1.ok THEN c1
      ELSE IF ~c2.ok THEN c2
      ELSE IF ~c3.ok THEN c3
      ELSE IF ~c4.ok THEN c4
      ELSE Ret(<<c1.val, c2.val, c3.val, c4.val>>, c4.off)

(***************************************************************************)
(* Glyph model: a point is [x, y, onCurve, cubic, x1, y1, x2, y2] (the     *)
(* control pair is 0 when cubic is FALSE); a glyph is contours + bbox.     *)
(* A decode result is [st, err, glyph, off]: st is "glyph", "null" (the    *)
(* JavaScript null) or "throw" (an Error propagates); off is this.offset   *)
(* after the call.                                                         *)
(***************************************************************************)
Pt(px, py, on) ==
  [x |-> px, y |-> py, onCurve |-> on, cubic |-> FALSE,
   x1 |-> 0, y1 |-> 0, x2 |-> 0, y2 |-> 0]

CubicPt(px, py, cx1, cy1, cx2, cy2) ==
  [x |-> px, y |-> py, onCurve |-> TRUE, cubic |-> TRUE,
   x1 |-> cx1, y1 |-> cy1, x2 |-> cx2, y2 |-> cy2]

MkGlyph(cs, bx) ==
  [contours |-> cs, xMin |-> bx[1], yMin |-> bx[2], xMax |-> bx[3], yMax |-> bx[4]]

EmptyGlyph == MkGlyph(<<>>, <<0, 0, 0, 0>>)

GlyphOk(g, o) == [st |-> "glyph", err |-> "none", glyph |-> g, off |-> o]

GlyphNull(o) == [st |-> "null", err |-> "none", glyph |-> EmptyGlyph, off |-> o]

GlyphThrow(kind) == [st |-> "throw", err |-> kind, glyph |-> EmptyGlyph, off |-> 0]

(***************************************************************************)
(* TrueType simple glyph                                                   *)
(***************************************************************************)
RECURSIVE readUint16Array(_, _, _)
readUint16Array(buf, o, n) ==
  IF n = 0 THEN Ret(<<>>, o)
  ELSE LET r == readUint16(buf, o)
       IN  IF ~r.ok THEN r
           ELSE LET rest == readUint16Array(buf, r.off, n - 1)
                IN  IF ~rest.ok THEN rest
                    ELSE Ret(<<r.val>> \o rest.val, rest.off)

\* the flag loop: a flag with bit 3 is followed by a repeat count
RECURSIVE readFlags(_, _, _, _)
readFlags(buf, o, numPoints, flags) ==
  IF Len(flags) >= numPoints THEN Ret(flags, o)
  ELSE LET f == readUint8(buf, o)
       IN  IF ~f.ok THEN f
           ELSE IF Bit(f.val, 3)
             THEN LET rc == readUint8(buf, f.off)
                  IN  IF ~rc.ok THEN rc
                      ELSE readFlags(buf, rc.off, numPoints,
                                     flags \o <<f.val>> \o [k \in 1..rc.val |-> f.val])
             ELSE readFlags(buf, f.off, numPoints, Append(flags, f.val))

\* one coordinate stream: shortBit/sameBit are 1/4 for x and 2/5 for y
RECURSIVE readCoords(_, _, _, _, _, _, _, _)
readCoords(buf, o, flags, numPoints, cur, acc, shortBit, sameBit) ==
  IF Len(acc) >= numPoints THEN Ret(acc, o)
  ELSE LET flag == flags[Len(acc) + 1]
       IN  IF Bit(flag, shortBit)
           THEN LET d == readUint8(buf, o)
                    nxt == IF Bit(flag, sameBit) THEN cur + d.val ELSE cur - d.val
                IN  IF ~d.ok THEN d
                    ELSE readCoords(buf, d.off, flags, numPoints, nxt,
                                    Append(acc, nxt), shortBit, sameBit)
           ELSE IF ~Bit(flag, sameBit)
           THEN LET d == readInt16(buf, o)
                IN  IF ~d.ok THEN d
                    ELSE readCoords(buf, d.off, flags, numPoints, cur + d.val,
                                    Append(acc, cur + d.val), shortBit, sameBit)
           ELSE readCoords(buf, o, flags, numPoints, cur, Append(acc, cur),
                           shortBit, sameBit)

\* xCoords[p], yCoords[p], flags[p] of the contour loop (0-based p); an index
\* past the arrays reads undefined
pointAt(xs, ys, flags, p) ==
  Pt(IF p < Len(xs) THEN xs[p + 1] ELSE NaN,
     IF p < Len(ys) THEN ys[p + 1] ELSE NaN,
     IF p < Len(flags) THEN Bit(flags[p + 1], 0) ELSE FALSE)

\* the contour loop with `pointIndex < endPt`: a contour stops one point short
RECURSIVE buildContoursExclusive(_, _, _, _, _, _)
buildContoursExclusive(endPts, k, pointIndex, xs, ys, flags) ==
  IF k > Len(endPts) THEN <<>>
  ELSE LET endPt == endPts[k]
           n == IF pointIndex < endPt THEN endPt - pointIndex ELSE 0
           pts == [j \in 1..n |-> pointAt(xs, ys, flags, pointIndex + j - 1)]
       IN  <<pts>> \o buildContoursExclusive(endPts, k + 1, pointIndex + n, xs, ys, flags)

RECURSIVE buildContours(_, _, _, _, _, _)
buildContours(endPts, k, pointIndex, xs, ys, flags) ==
  IF k > Len(endPts) THEN <<>>
  ELSE LET endPt == endPts[k]
           n == IF pointIndex <= endPt THEN endPt - pointIndex + 1 ELSE 0
           pts == [j \in 1..n |-> pointAt(xs, ys, flags, pointIndex + j - 1)]
       IN  <<pts>> \o buildContours(endPts, k + 1, pointIndex + n, xs, ys, flags)

parseSimpleGlyph(buf, o, numberOfContours, bx) ==
  LET ends == readUint16Array(buf, o, numberOfContours)
  IN  IF ~ends.ok THEN GlyphThrow(ends.err)
      ELSE
      LET contourEndPts == ends.val
          numPoints == IF Len(contourEndPts) > 0 THEN Last(contourEndPts) + 1 ELSE 0
          il == readUint16(buf, ends.off)
      IN  IF ~il.ok THEN GlyphThrow(il.err)
          ELSE IF numPoints = 0 THEN GlyphOk(MkGlyph(<<>>, bx), il.off + il.val)
          ELSE
          LET fl == readFlags(buf, il.off + il.val, numPoints, <<>>)
          IN  IF ~fl.ok THEN GlyphThrow(fl.err)
              ELSE
              LET xr == readCoords(buf, fl.off, fl.val, numPoints, 0, <<>>, 1, 4)
              IN  IF ~xr.ok THEN GlyphThrow(xr.err)
                  ELSE
                  LET yr == readCoords(buf, xr.off, fl.val, numPoints, 0, <<>>, 2, 5)
                  IN  IF ~yr.ok THEN GlyphThrow(yr.err)
                      ELSE GlyphOk(MkGlyph(buildContours(contourEndPts, 1, 0,
                                                         xr.val, yr.val, fl.val), bx),
                                   yr.off)

(***************************************************************************)
(* TrueType glyph lookup and composite glyphs.  ft = [buffer, hasGlyf,      *)
(* glyfOffset, glyphOffsets] are the parser fields the decoder reads       *)
(* (hasGlyf: this.tables.glyf is defined); o is this.offset on entry.  A   *)
(* glyph that references itself recurses until the engine's call stack     *)
(* overflows (a RangeError), which JSStackLimit stands for.                *)
(***************************************************************************)
JSStackLimit == 5

\* the 2x2 matrix plus translation applied to one component point
transformPoint(pt, m00, m01, m10, m11, dx, dy) ==
  [pt EXCEPT !.x = Add(Add(Mul(pt.x, m00), Mul(pt.y, m01)), dx),
             !.y = Add(Add(Mul(pt.x, m10), Mul(pt.y, m11)), dy)]

transformContours(contours, m00, m01, m10, m11, dx, dy) ==
  [c \in 1..Len(contours) |->
     [j \in 1..Len(contours[c]) |->
        transformPoint(contours[c][j], m00, m01, m10, m11, dx, dy)]]

\* one component record: flags, glyphIndex, arg1, arg2 and the optional scale
readComponent(buf, o) ==
  LET fl == readUint16(buf, o)
      gi == readUint16(buf, fl.off)
      words == Bit(fl.val, 0)
      a1 == IF words THEN readInt16(buf, gi.off) ELSE readInt8(buf, gi.off)
      a2 == IF words THEN readInt16(buf, a1.off) ELSE readInt8(buf, a1.off)
      s1 == readF2Dot14(buf, a2.off)
      s2 == readF2Dot14(buf, s1.off)
      s3 == readF2Dot14(buf, s2.off)
      s4 == readF2Dot14(buf, s3.off)
      xy == Bit(fl.val, 1)
      rec(m00, m01, m10, m11, off) ==
        Ret([flags |-> fl.val, glyphIndex |-> gi.val,
             dx |-> IF xy THEN a1.val ELSE 0, dy |-> IF xy THEN a2.val ELSE 0,
             m00 |-> m00, m01 |-> m01, m10 |-> m10, m11 |-> m11], off)
  IN  IF ~fl.ok THEN fl
      ELSE IF ~gi.ok THEN gi
      ELSE IF ~a1.ok THEN a1
      ELSE IF ~a2.ok THEN a2
      ELSE IF Bit(fl.val, 3)
        THEN IF ~s1.ok THEN s1 ELSE rec(s1.val, 0, 0, s1.val, s1.off)
      ELSE IF Bit(fl.val, 6)
        THEN IF ~s1.ok THEN s1
             ELSE IF ~s2.ok THEN s2 ELSE rec(s1.val, 0, 0, s2.val, s2.off)
      ELSE IF Bit(fl.val, 7)
        THEN IF ~s1.ok THEN s1
             ELSE IF ~s2.ok THEN s2
             ELSE IF ~s3.ok THEN s3
             ELSE IF ~s4.ok THEN s4
             ELSE rec(s1.val, s2.val, s3.val, s4.val, s4.off)
      ELSE rec(1, 0, 0, 1, a2.off)

RECURSIVE parseTrueTypeGlyph(_, _, _, _)
RECURSIVE compositeLoop(_, _, _, _, _, _)

\* the do/while of parseCompositeGlyph from offset o with allContours = acc;
\* the next record is read wherever decoding the component left this.offset.
\* visited holds the offsets the loop has read a record at: reading at one
\* of them again repeats the same iterations for ever, and the call never
\* returns ("NoReturn")
compositeLoop(ft, o, acc, bx, depth, visited) ==
  LET \* WE_HAVE_INSTRUCTIONS: the instruction bytes are skipped
      skipInstructions(allContours, il) ==
        IF ~il.ok THEN GlyphThrow(il.err)
        ELSE GlyphOk(MkGlyph(allContours, bx), il.off + il.val)
      \* the loop condition and what follows the loop; off is this.offset
      \* after the component glyph was decoded
      more(flags, allContours, off) ==
        IF Bit(flags, 5)
        THEN compositeLoop(ft, off, allContours, bx, depth, visited \cup {o})
        ELSE IF Bit(flags, 8)
        THEN skipInstructions(allContours, readUint16(ft.buffer, off))
        ELSE GlyphOk(MkGlyph(allContours, bx), off)
      \* the contours of the decoded component, transformed, are appended
      addComponent(c, baseGlyph) ==
        IF baseGlyph.st = "throw" THEN baseGlyph
        ELSE more(c.flags,
                  IF baseGlyph.st = "glyph"
                  THEN acc \o transformContours(baseGlyph.glyph.contours,
                                                c.m00, c.m01, c.m10, c.m11, c.dx, c.dy)
                  ELSE acc,
                  baseGlyph.off)
      component(c) ==
        IF ~c.ok THEN GlyphThrow(c.err)
        ELSE addComponent(c.val,
                          parseTrueTypeGlyph(ft, c.val.glyphIndex, c.off, depth + 1))
  IN  IF o \in visited THEN GlyphThrow("NoReturn")
      ELSE component(readComponent(ft.buffer, o))

parseCompositeGlyph(ft, o, bx, depth) == compositeLoop(ft, o, <<>>, bx, depth, {})

parseTrueTypeGlyph(ft, glyphId, o, depth) ==
  IF depth > JSStackLimit THEN GlyphThrow("StackOverflow")
  ELSE IF glyphId >= Len(ft.glyphOffsets) - 1 THEN GlyphNull(o)
  ELSE
  LET offset == ft.glyphOffsets[glyphId + 1]
      nextOffset == ft.glyphOffsets[glyphId + 2]
      sk == seek(ft.buffer, ft.glyfOffset + offset)
      nc == readInt16(ft.buffer, sk.off)
      b1 == readInt16(ft.buffer, nc.off)
      b2 == readInt16(ft.buffer, b1.off)
      b3 == readInt16(ft.buffer, b2.off)
      b4 == readInt16(ft.buffer, b3.off)
      bx == <<b1.val, b2.val, b3.val, b4.val>>
  IN  IF offset = nextOffset THEN GlyphOk(EmptyGlyph, o)
      ELSE IF ~ft.hasGlyf THEN GlyphThrow("TypeError")
      ELSE IF ~sk.ok THEN GlyphThrow(sk.err)
      ELSE IF ~nc.ok THEN GlyphThrow(nc.err)
      ELSE IF ~b1.ok THEN GlyphThrow(b1.err)
      ELSE IF ~b2.ok THEN GlyphThrow(b2.err)
      ELSE IF ~b3.ok THEN GlyphThrow(b3.err)
      ELSE IF ~b4.ok THEN GlyphThrow(b4.err)
      ELSE IF nc.val >= 0 THEN parseSimpleGlyph(ft.buffer, b4.off, nc.val, bx)
      ELSE parseCompositeGlyph(ft, b4.off, bx, depth)

(***************************************************************************)
(* CFF CharString operands.  data[i] past the end is undefined: it is 0    *)
(* under << and |, and NaN under +.  The result is [value, den, nextIndex] *)
(* with the operand being value/den (den is 65536 for the b0 = 255 form).  *)
(***************************************************************************)
byteOr0(data, i) == IF i < Len(data) THEN data[i + 1] ELSE 0

byteOrNaN(data, i) == IF i < Len(data) THEN data[i + 1] ELSE NaN

\* (b1 << 24) | (b2 << 16) | (b3 << 8) | b4 as the signed 32-bit result
int32Of(b1, b2, b3, b4) ==
  (IF b1 >= 128 THEN b1 - 256 ELSE b1) * 16777216 + b2 * 65536 + b3 * 256 + b4

Operand(v, d, n) == [value |-> v, den |-> d, nextIndex |-> n]

readCharStringOperand(data, index) ==
  LET b0 == data[index + 1]
  IN  IF b0 >= 32 /\ b0 <= 246 THEN Operand(b0 - 139, 1, index + 1)
      ELSE IF b0 >= 247 /\ b0 <= 250
        THEN Operand(Add((b0 - 247) * 256 + 108, byteOrNaN(data, index + 1)), 1, index + 2)
      ELSE IF b0 >= 251 /\ b0 <= 254
        THEN Operand(Add(0 - (b0 - 251) * 256 - 108, Neg(byteOrNaN(data, index + 1))),
                     1, index + 2)
      ELSE IF b0 = 28
        THEN Operand(byteOr0(data, index + 1) * 256 + byteOr0(data, index + 2), 1, index + 3)
      ELSE IF b0 = 255
        THEN Operand(int32Of(byteOr0(data, index + 1), byteOr0(data, index + 2),
                             byteOr0(data, index + 3), byteOr0(data, index + 4)),
                     65536, index + 5)
      ELSE Operand(0, 1, index + 1)

readDictOperand(data, index) ==
  LET b0 == data[index + 1]
  IN  IF b0 >= 32 /\ b0 <= 246 THEN Operand(b0 - 139, 1, index + 1)
      ELSE IF b0 >= 247 /\ b0 <= 250
        THEN Operand(Add((b0 - 247) * 256 + 108, byteOrNaN(data, index + 1)), 1, index + 2)
      ELSE IF b0 >= 251 /\ b0 <= 254
        THEN Operand(Add(0 - (b0 - 251) * 256 - 108, Neg(byteOrNaN(data, index + 1))),
                     1, index + 2)
      ELSE IF b0 = 28
        THEN Operand(byteOr0(data, index + 1) * 256 + byteOr0(data, index + 2), 1, index + 3)
      ELSE IF b0 = 29
        THEN Operand(int32Of(byteOr0(data, index + 1), byteOr0(data, index + 2),
                             byteOr0(data, index + 3), byteOr0(data, index + 4)),
                     1, index + 5)
      ELSE Operand(0, 1, index + 1)

(***************************************************************************)
(* CharString interpreter.  The pen state is one record threaded through   *)
(* the calls: the locals x, y, nStems, haveWidth, width, open of drawCFF   *)
(* are written to the shared state object before every call and at every   *)
(* exit and re-read after every call; stack and path are shared arrays.    *)
(* err and maxDepth are bookkeeping: err = "StackOverflow" is the engine's *)
(* RangeError, maxDepth the deepest drawCFF activation (1 = the glyph).    *)
(***************************************************************************)
InitialPenState ==
  [stack |-> <<>>, x |-> 0, y |-> 0, nStems |-> 0, haveWidth |-> FALSE,
   width |-> 0, open |-> FALSE, path |-> <<>>, err |-> "none", maxDepth |-> 0]

Cmd(t, px, py) ==
  [type |-> t, x |-> px, y |-> py, x1 |-> 0, y1 |-> 0, x2 |-> 0, y2 |-> 0]

CurveCmd(c1x, c1y, c2x, c2y, px, py) ==
  [type |-> "curveto", x |-> px, y |-> py, x1 |-> c1x, y1 |-> c1y, x2 |-> c2x, y2 |-> c2y]

ClosePath == Cmd("closepath", 0, 0)

\* stack.shift() / stack.pop(): undefined on an empty stack
shiftVal(st) == IF st = <<>> THEN NaN ELSE Head(st)

shiftRest(st) == IF st = <<>> THEN <<>> ELSE Tail(st)

popVal(st) == IF st = <<>> THEN NaN ELSE st[Len(st)]

popRest(st) == IF st = <<>> THEN <<>> ELSE SubSeq(st, 1, Len(st) - 1)

\* width = stack.shift() + nominalWidthX when the operator carries a width
takeWidth(s, cond) ==
  IF cond /\ ~s.haveWidth
  THEN [s EXCEPT !.width = shiftVal(s.stack), !.stack = shiftRest(s.stack),
                 !.haveWidth = TRUE]
  ELSE s

closeIfOpen(s) == IF s.open THEN [s EXCEPT !.path = Append(s.path, ClosePath)] ELSE s

\* hstem, hstemhm, vstem, vstemhm
opStem(s) ==
  LET hasWidthArg == Len(s.stack) % 2 # 0
      s1 == IF hasWidthArg /\ ~s.haveWidth
            THEN [s EXCEPT !.width = shiftVal(s.stack), !.stack = shiftRest(s.stack)]
            ELSE s
  IN  [s1 EXCEPT !.nStems = s1.nStems + Len(s1.stack) \div 2, !.stack = <<>>,
                 !.haveWidth = TRUE]

opVmoveto(s) ==
  LET s1 == closeIfOpen(takeWidth(s, Len(s.stack) > 1))
      ny == Add(s1.y, popVal(s1.stack))
  IN  [s1 EXCEPT !.stack = popRest(s1.stack), !.y = ny,
                 !.path = Append(s1.path, Cmd("moveto", s1.x, ny)), !.open = TRUE]

\* hmoveto without the closepath for an open path
opHmovetoNoClose(s) ==
  LET s1 == takeWidth(s, Len(s.stack) > 1)
      nx == Add(s1.x, popVal(s1.stack))
  IN  [s1 EXCEPT !.stack = popRest(s1.stack), !.x = nx,
                 !.path = Append(s1.path, Cmd("moveto", nx, s1.y)), !.open = TRUE]

opHmoveto(s) ==
  LET s1 == closeIfOpen(takeWidth(s, Len(s.stack) > 1))
      nx == Add(s1.x, popVal(s1.stack))
  IN  [s1 EXCEPT !.stack = popRest(s1.stack), !.x = nx,
                 !.path = Append(s1.path, Cmd("moveto", nx, s1.y)), !.open = TRUE]

opRmoveto(s) ==
  LET s1 == closeIfOpen(takeWidth(s, Len(s.stack) > 2))
      nx == Add(s1.x, shiftVal(s1.stack))
      r1 == shiftRest(s1.stack)
      ny == Add(s1.y, shiftVal(r1))
  IN  [s1 EXCEPT !.stack = shiftRest(r1), !.x = nx, !.y = ny,
                 !.path = Append(s1.path, Cmd("moveto", nx, ny)), !.open = TRUE]

RECURSIVE opRlineto(_)
opRlineto(s) ==
  IF Len(s.stack) = 0 THEN s
  ELSE LET nx == Add(s.x, shiftVal(s.stack))
           r1 == shiftRest(s.stack)
           ny == Add(s.y, shiftVal(r1))
       IN  opRlineto([s EXCEPT !.stack = shiftRest(r1), !.x = nx, !.y = ny,
                               !.path = Append(s.path, Cmd("lineto", nx, ny))])

\* hlineto (alternate starts TRUE) and vlineto (alternate starts FALSE)
RECURSIVE opHVlineto(_, _)
opHVlineto(s, alternate) ==
  IF Len(s.stack) = 0 THEN s
  ELSE LET sval == Head(s.stack)
           nx == IF alternate THEN Add(s.x, sval) ELSE s.x
           ny == IF alternate THEN s.y ELSE Add(s.y, sval)
       IN  opHVlineto([s EXCEPT !.stack = Tail(s.stack), !.x = nx, !.y = ny,
                                !.path = Append(s.path, Cmd("lineto", nx, ny))],
                      ~alternate)

RECURSIVE opRrcurveto(_)
opRrcurveto(s) ==
  IF Len(s.stack) < 6 THEN s
  ELSE LET k == s.stack
           c1x == Add(s.x, k[1])
           c1y == Add(s.y, k[2])
           c2x == Add(c1x, k[3])
           c2y == Add(c1y, k[4])
           nx == Add(c2x, k[5])
           ny == Add(c2y, k[6])
       IN  opRrcurveto([s EXCEPT !.stack = SubSeq(k, 7, Len(k)), !.x = nx, !.y = ny,
                                 !.path = Append(s.path,
                                                 CurveCmd(c1x, c1y, c2x, c2y, nx, ny))])

\* hvcurveto (alternate starts TRUE) and vhcurveto (alternate starts FALSE)
RECURSIVE opHVcurveto(_, _)
opHVcurveto(s, alternate) ==
  IF Len(s.stack) < 4 THEN s
  ELSE LET k == s.stack
           last5 == Len(k) = 5
           rest == SubSeq(k, IF last5 THEN 6 ELSE 5, Len(k))
           c1x == IF alternate THEN Add(s.x, k[1]) ELSE s.x
           c1y == IF alternate THEN s.y ELSE Add(s.y, k[1])
           c2x == Add(c1x, k[2])
           c2y == Add(c1y, k[3])
           nx == IF alternate THEN (IF last5 THEN Add(c2x, k[5]) ELSE c2x)
                 ELSE Add(c2x, k[4])
           ny == IF alternate THEN Add(c2y, k[4])
                 ELSE (IF last5 THEN Add(c2y, k[5]) ELSE c2y)
       IN  opHVcurveto([s EXCEPT !.stack = rest, !.x = nx, !.y = ny,
                                 !.path = Append(s.path,
                                                 CurveCmd(c1x, c1y, c2x, c2y, nx, ny))],
                       ~alternate)

opEndchar(s) == closeIfOpen(takeWidth(s, Len(s.stack) > 0))

\* this.cffLocalBias || 107, this.cffGlobalBias || 107
biasOf(cff, op) ==
  LET b == IF op = 10 THEN cff.cffLocalBias ELSE cff.cffGlobalBias
  IN  IF b = 0 THEN 107 ELSE b

subrsOf(cff, op) == IF op = 10 THEN cff.cffLocalSubrs ELSE cff.cffGlobalSubrs

\* the operators that neither call nor return
applyOperator(op, s) ==
  IF op \in {1, 18, 3, 23} THEN opStem(s)
  ELSE IF op = 4 THEN opVmoveto(s)
  ELSE IF op = 5 THEN opRlineto(s)
  ELSE IF op = 6 THEN opHVlineto(s, TRUE)
  ELSE IF op = 7 THEN opHVlineto(s, FALSE)
  ELSE IF op = 8 THEN opRrcurveto(s)
  ELSE IF op = 14 THEN opEndchar(s)
  ELSE IF op = 21 THEN opRmoveto(s)
  ELSE IF op = 22 THEN opHmoveto(s)
  ELSE IF op = 30 THEN opHVcurveto(s, FALSE)
  ELSE IF op = 31 THEN opHVcurveto(s, TRUE)
  ELSE [s EXCEPT !.stack = <<>>]

\* drawCFF without the read-back after a call: the caller goes on with the
\* x, y, nStems, haveWidth, width and open it had before the subroutine ran
RECURSIVE drawCFFPenNotShared(_, _, _, _, _)
drawCFFPenNotShared(cff, charString, i, s, depth) ==
  IF depth > JSStackLimit THEN [s EXCEPT !.err = "StackOverflow"]
  ELSE IF s.err # "none" THEN s
  ELSE IF i >= Len(charString)
    THEN [s EXCEPT !.maxDepth = IF depth > s.maxDepth THEN depth ELSE s.maxDepth]
  ELSE
  LET b == charString[i + 1]
      sd == [s EXCEPT !.maxDepth = IF depth > s.maxDepth THEN depth ELSE s.maxDepth]
  IN  IF b >= 32
      THEN LET operand == readCharStringOperand(charString, i)
           IN  drawCFFPenNotShared(cff, charString, operand.nextIndex,
                       [sd EXCEPT !.stack = Append(sd.stack,
                                                   IF operand.value = NaN THEN NaN
                                                   ELSE operand.value \div operand.den)],
                       depth)
      ELSE
      LET op == IF b = 12 THEN 3072 + byteOr0(charString, i + 1) ELSE b
          j == IF b = 12 THEN i + 1 ELSE i
      IN  IF op = 11 THEN sd
          ELSE IF op \in {10, 29}
          THEN IF Len(sd.stack) = 0
               THEN drawCFFPenNotShared(cff, charString, j + 1, sd, depth)
               ELSE
               LET subrIndex == popVal(sd.stack)
                   subrs == subrsOf(cff, op)
                   adjustedIndex == Add(subrIndex, biasOf(cff, op))
                   s1 == [sd EXCEPT !.stack = popRest(sd.stack)]
                   back(r) == [r EXCEPT !.x = s1.x, !.y = s1.y, !.nStems = s1.nStems,
                                        !.haveWidth = s1.haveWidth, !.width = s1.width,
                                        !.open = s1.open]
               IN  IF adjustedIndex # NaN /\ adjustedIndex >= 0
                      /\ adjustedIndex < Len(subrs)
                   THEN drawCFFPenNotShared(cff, charString, j + 1,
                          back(drawCFFPenNotShared(cff, subrs[adjustedIndex + 1], 0, s1,
                                                   depth + 1)),
                          depth)
                   ELSE drawCFFPenNotShared(cff, charString, j + 1, s1, depth)
          ELSE drawCFFPenNotShared(cff, charString, j + 1, applyOperator(op, sd), depth)

\* drawCFF(charString, state) from byte i on; cff holds the subroutine tables
\* and biases of the parser; depth counts the drawCFF activations
RECURSIVE drawCFF(_, _, _, _, _)
drawCFF(cff, charString, i, s, depth) ==
  IF depth > JSStackLimit THEN [s EXCEPT !.err = "StackOverflow"]
  ELSE IF s.err # "none" THEN s
  ELSE IF i >= Len(charString)
    THEN [s EXCEPT !.maxDepth = IF depth > s.maxDepth THEN depth ELSE s.maxDepth]
  ELSE
  LET b == charString[i + 1]
      sd == [s EXCEPT !.maxDepth = IF depth > s.maxDepth THEN depth ELSE s.maxDepth]
  IN  IF b >= 32
      THEN LET operand == readCharStringOperand(charString, i)
           IN  drawCFF(cff, charString, operand.nextIndex,
                       [sd EXCEPT !.stack = Append(sd.stack,
                                                   IF operand.value = NaN THEN NaN
                                                   ELSE operand.value \div operand.den)],
                       depth)
      ELSE
      LET op == IF b = 12 THEN 3072 + byteOr0(charString, i + 1) ELSE b
          j == IF b = 12 THEN i + 1 ELSE i
      IN  IF op = 11 THEN sd
          ELSE IF op \in {10, 29}
          THEN IF Len(sd.stack) = 0 THEN drawCFF(cff, charString, j + 1, sd, depth)
               ELSE
               LET subrIndex == popVal(sd.stack)
                   subrs == subrsOf(cff, op)
                   adjustedIndex == Add(subrIndex, biasOf(cff, op))
                   s1 == [sd EXCEPT !.stack = popRest(sd.stack)]
               IN  IF adjustedIndex # NaN /\ adjustedIndex >= 0
                      /\ adjustedIndex < Len(subrs)
                   THEN drawCFF(cff, charString, j + 1,
                                drawCFF(cff, subrs[adjustedIndex + 1], 0, s1, depth + 1),
                                depth)
                   ELSE drawCFF(cff, charString, j + 1, s1, depth)
          ELSE drawCFF(cff, charString, j + 1, applyOperator(op, sd), depth)

(***************************************************************************)
(* CFF path commands -> glyph                                              *)
(***************************************************************************)
\* min / max of a list as the Infinity-seeded Math.min / Math.max folds
\* followed by isFinite(v) ? v : 0 compute them
FiniteMin(vals) ==
  IF vals = <<>> \/ \E k \in 1..Len(vals) : vals[k] = NaN THEN 0
  ELSE CHOOSE m \in {vals[k] : k \in 1..Len(vals)} :
         \A k \in 1..Len(vals) : m <= vals[k]

FiniteMax(vals) ==
  IF vals = <<>> \/ \E k \in 1..Len(vals) : vals[k] = NaN THEN 0
  ELSE CHOOSE m \in {vals[k] : k \in 1..Len(vals)} :
         \A k \in 1..Len(vals) : m >= vals[k]

RECURSIVE Flatten(_)
Flatten(ss) == IF ss = <<>> THEN <<>> ELSE Head(ss) \o Flatten(Tail(ss))

cmdXs(cmd) ==
  IF cmd.type = "curveto" THEN <<cmd.x1, cmd.x2, cmd.x>>
  ELSE IF cmd.type = "closepath" THEN <<>> ELSE <<cmd.x>>

cmdYs(cmd) ==
  IF cmd.type = "curveto" THEN <<cmd.y1, cmd.y2, cmd.y>>
  ELSE IF cmd.type = "closepath" THEN <<>> ELSE <<cmd.y>>

cmdPoint(cmd) ==
  IF cmd.type = "curveto" THEN CubicPt(cmd.x, cmd.y, cmd.x1, cmd.y1, cmd.x2, cmd.y2)
  ELSE Pt(cmd.x, cmd.y, TRUE)

\* the command walk: contours pushed so far and the current contour
RECURSIVE cffContours(_, _, _)
cffContours(cmds, contours, currentContour) ==
  IF cmds = <<>>
  THEN IF Len(currentContour) > 0 THEN Append(contours, currentContour) ELSE contours
  ELSE LET cmd == Head(cmds)
       IN  IF cmd.type = "moveto"
           THEN cffContours(Tail(cmds),
                            IF Len(currentContour) > 0
                            THEN Append(contours, currentContour) ELSE contours,
                            <<cmdPoint(cmd)>>)
           ELSE IF cmd.type \in {"lineto", "curveto"}
           THEN cffContours(Tail(cmds), contours, Append(currentContour, cmdPoint(cmd)))
           ELSE IF Len(currentContour) > 0
           THEN cffContours(Tail(cmds), Append(contours, currentContour), <<>>)
           ELSE cffContours(Tail(cmds), contours, currentContour)

cffPathToGlyph(pathCommands) ==
  IF pathCommands = <<>> THEN GlyphNull(0)
  ELSE LET xs == Flatten([k \in 1..Len(pathCommands) |-> cmdXs(pathCommands[k])])
           ys == Flatten([k \in 1..Len(pathCommands) |-> cmdYs(pathCommands[k])])
       IN  GlyphOk(MkGlyph(cffContours(pathCommands, <<>>, <<>>),
                           <<FiniteMin(xs), FiniteMin(ys), FiniteMax(xs), FiniteMax(ys)>>),
                   0)

\* cff = [cffCharStrings, cffLocalSubrs, cffGlobalSubrs, cffLocalBias, cffGlobalBias];
\* every Error thrown while interpreting is caught and gives null
parseCFFGlyph(cff, glyphId) ==
  IF glyphId >= Len(cff.cffCharStrings) THEN GlyphNull(0)
  ELSE LET charString == cff.cffCharStrings[glyphId + 1]
           glyphOf(state) ==
             IF state.err # "none" THEN GlyphNull(0) ELSE cffPathToGlyph(state.path)
       IN  IF Len(charString) = 0 THEN GlyphNull(0)
           ELSE glyphOf(drawCFF(cff, charString, 0, InitialPenState, 1))

(***************************************************************************)
(* Variable font blender.  A blended glyph carries x as a numerator over   *)
(* XDen and y as a numerator over YDen: x*(wdth/100) is (x*wdth)/XDen and  *)
(* y*(1 + (wght-150)/1500) is (y*(1350+wght))/YDen.  A glyph returned      *)
(* unblended (static font) is the same glyph written over these            *)
(* denominators.                                                           *)
(***************************************************************************)
XDen == 100

YDen == 1500

scalePoint(pt, fx, fy) ==
  [pt EXCEPT !.x = Mul(pt.x, fx), !.y = Mul(pt.y, fy),
             !.x1 = Mul(pt.x1, fx), !.y1 = Mul(pt.y1, fy),
             !.x2 = Mul(pt.x2, fx), !.y2 = Mul(pt.y2, fy)]

scaleContours(contours, fx, fy) ==
  [c \in 1..Len(contours) |->
     [j \in 1..Len(contours[c]) |-> scalePoint(contours[c][j], fx, fy)]]

pointXs(pt) == IF pt.cubic THEN <<pt.x, pt.x1, pt.x2>> ELSE <<pt.x>>

pointYs(pt) == IF pt.cubic THEN <<pt.y, pt.y1, pt.y2>> ELSE <<pt.y>>

calculateGlyphBounds(contours) ==
  LET pts == Flatten(contours)
      xs == Flatten([k \in 1..Len(pts) |-> pointXs(pts[k])])
      ys == Flatten([k \in 1..Len(pts) |-> pointYs(pts[k])])
  IN  <<FiniteMin(xs), FiniteMin(ys), FiniteMax(xs), FiniteMax(ys)>>

\* widthFactor and weightFactor as numerators over XDen and YDen
transformGlyph(glyph, widthNum, weightNum) ==
  LET cs == scaleContours(glyph.contours, widthNum, weightNum)
  IN  MkGlyph(cs, calculateGlyphBounds(cs))

\* this.currentAxisValues[tag] || dflt
axisOr(axisValues, tag, dflt) ==
  IF tag \in DOMAIN axisValues /\ axisValues[tag] # 0 THEN axisValues[tag] ELSE dflt

unblended(glyph) ==
  MkGlyph(scaleContours(glyph.contours, XDen, YDen),
          <<glyph.xMin * XDen, glyph.yMin * YDen, glyph.xMax * XDen, glyph.yMax * YDen>>)

\* applyVariationToGlyph applied to its own result: the factors act twice
applyVariationToGlyphTwice(isVariableFont, axisValues, baseGlyph) ==
  IF ~isVariableFont THEN unblended(baseGlyph)
  ELSE LET wght == axisOr(axisValues, "wght", 150)
           wdth == axisOr(axisValues, "wdth", 100)
       IN  transformGlyph(baseGlyph, (wdth * wdth) \div XDen,
                          ((YDen + (wght - 150)) * (YDen + (wght - 150))) \div YDen)

applyVariationToGlyph(isVariableFont, axisValues, baseGlyph) ==
  IF ~isVariableFont THEN unblended(baseGlyph)
  ELSE LET wght == axisOr(axisValues, "wght", 150)
           wdth == axisOr(axisValues, "wdth", 100)
       IN  transformGlyph(baseGlyph, wdth, YDen + (wght - 150))

(***************************************************************************)
(* Path emitter.  Points come in over XDen/YDen; emitted coordinates are   *)
(* numerators over XUnit = 2*XDen and YUnit = 2*YDen, which makes the /2   *)
(* of an implied midpoint exact.  options = [scale, flipY, offsetX,        *)
(* offsetY], scale a whole number, the offsets in XUnit/YUnit.  The path   *)
(* string is the list of its commands [op, x, y, x1, y1, x2, y2]; the      *)
(* empty list is the empty string.                                         *)
(***************************************************************************)
XUnit == 2 * XDen

YUnit == 2 * YDen

SvgCmd(o, px, py, cx1, cy1, cx2, cy2) ==
  [op |-> o, x |-> px, y |-> py, x1 |-> cx1, y1 |-> cy1, x2 |-> cx2, y2 |-> cy2]

\* pt.x * scale + offsetX, for a doubled numerator v
coordX(v, opt) == Add(Mul(v, opt.scale), opt.offsetX)

\* flipY ? -pt.y * scale + offsetY : pt.y * scale + offsetY
coordY(v, opt) ==
  IF opt.flipY THEN Add(Mul(Neg(v), opt.scale), opt.offsetY)
  ELSE Add(Mul(v, opt.scale), opt.offsetY)

doubled(points) == [k \in 1..Len(points) |-> scalePoint(points[k], 2, 2)]

\* the on-curve point halfway between p and q (doubled numerators)
midPoint(p, q) ==
  Pt(IF Add(p.x, q.x) = NaN THEN NaN ELSE Add(p.x, q.x) \div 2,
     IF Add(p.y, q.y) = NaN THEN NaN ELSE Add(p.y, q.y) \div 2, TRUE)

\* const pts = [...points] with an on-curve first point ensured
withStart(pts) ==
  IF pts[1].onCurve THEN pts
  ELSE LET last == pts[Len(pts)]
       IN  <<IF last.onCurve THEN last ELSE midPoint(last, pts[1])>> \o pts

\* the while loop with `i += 2` after every Q: the second of two off-curve
\* points is consumed with the first
RECURSIVE walkContourSkipsControl(_, _, _)
walkContourSkipsControl(pts, i, opt) ==
  IF i >= Len(pts) THEN <<>>
  ELSE LET curr == pts[i + 1]
           next == pts[((i + 1) % Len(pts)) + 1]
           end == IF next.onCurve THEN next ELSE midPoint(curr, next)
       IN  IF curr.onCurve
           THEN <<IF curr.cubic
                  THEN SvgCmd("C", coordX(curr.x, opt), coordY(curr.y, opt),
                              coordX(curr.x1, opt), coordY(curr.y1, opt),
                              coordX(curr.x2, opt), coordY(curr.y2, opt))
                  ELSE SvgCmd("L", coordX(curr.x, opt), coordY(curr.y, opt), 0, 0, 0, 0)>>
                \o walkContourSkipsControl(pts, i + 1, opt)
           ELSE <<SvgCmd("Q", coordX(end.x, opt), coordY(end.y, opt),
                         coordX(curr.x, opt), coordY(curr.y, opt), 0, 0)>>
                \o walkContourSkipsControl(pts, i + 2, opt)

\* the while loop of contourToSVGPath from 0-based index i on
RECURSIVE walkContour(_, _, _)
walkContour(pts, i, opt) ==
  IF i >= Len(pts) THEN <<>>
  ELSE LET curr == pts[i + 1]
           next == pts[((i + 1) % Len(pts)) + 1]
           end == IF next.onCurve THEN next ELSE midPoint(curr, next)
       IN  IF curr.onCurve
           THEN <<IF curr.cubic
                  THEN SvgCmd("C", coordX(curr.x, opt), coordY(curr.y, opt),
                              coordX(curr.x1, opt), coordY(curr.y1, opt),
                              coordX(curr.x2, opt), coordY(curr.y2, opt))
                  ELSE SvgCmd("L", coordX(curr.x, opt), coordY(curr.y, opt), 0, 0, 0, 0)>>
                \o walkContour(pts, i + 1, opt)
           ELSE <<SvgCmd("Q", coordX(end.x, opt), coordY(end.y, opt),
                         coordX(curr.x, opt), coordY(curr.y, opt), 0, 0)>>
                \o walkContour(pts, IF next.onCurve THEN i + 2 ELSE i + 1, opt)

contourToSVGPath(points, opt) ==
  IF Len(points) = 0 THEN <<>>
  ELSE LET pts == withStart(doubled(points))
       IN  <<SvgCmd("M", coordX(pts[1].x, opt), coordY(pts[1].y, opt), 0, 0, 0, 0)>>
           \o walkContour(pts, 1, opt)
           \o <<SvgCmd("Z", 0, 0, 0, 0, 0, 0)>>

\* options.scale || 1 (flipY and the offsets are passed as they are used)
normOptions(opt) == [opt EXCEPT !.scale = IF opt.scale = 0 THEN 1 ELSE opt.scale]

\* the path of a decoded glyph: the contours' paths joined
glyphPath(glyph, opt) ==
  Flatten([c \in 1..Len(glyph.contours) |->
             contourToSVGPath(glyph.contours[c], normOptions(opt))])

\* getGlyphBounds without the `if (point.cubic)` block: on-curve points only
glyphBoundsWithoutControls(glyph, opt) ==
  LET o == normOptions(opt)
      pts == doubled(Flatten(glyph.contours))
      xs == [k \in 1..Len(pts) |-> coordX(pts[k].x, o)]
      ys == [k \in 1..Len(pts) |-> coordY(pts[k].y, o)]
  IN  [minX |-> FiniteMin(xs), minY |-> FiniteMin(ys),
       maxX |-> FiniteMax(xs), maxY |-> FiniteMax(ys)]

\* the bounds of a decoded glyph with at least one contour
glyphBounds(glyph, opt) ==
  LET o == normOptions(opt)
      pts == doubled(Flatten(glyph.contours))
      xs == Flatten([k \in 1..Len(pts) |->
                       [j \in 1..Len(pointXs(pts[k])) |-> coordX(pointXs(pts[k])[j], o)]])
      ys == Flatten([k \in 1..Len(pts) |->
                       [j \in 1..Len(pointYs(pts[k])) |-> coordY(pointYs(pts[k])[j], o)]])
  IN  [minX |-> FiniteMin(xs), minY |-> FiniteMin(ys),
       maxX |-> FiniteMax(xs), maxY |-> FiniteMax(ys)]

(***************************************************************************)
(* Font buffers.  A buffer is described by what the table parsers read     *)
(* from it: the bytes of the sfnt header and table directory (directory),  *)
(* head (unitsPerEm, yMin, yMax), cmap (cmapFormat, cmap), hhea/hmtx       *)
(* (ascender, descender, hmtx), loca (loca), fvar (axes), the CFF          *)
(* structures (cff), and the bytes glyph decoding reads (bytes, with the   *)
(* glyf table at glyfOffset).  cff.failAt names the CFF decoding step      *)
(* whose cursor read or seek throws ("none": the table decodes).  A buffer *)
(* that ends inside its table directory consists of its directory bytes    *)
(* alone.                                                                  *)
(***************************************************************************)
EmptyMap == [t \in {} |-> 0]

\* table tags as character codes
Tag ==
  [head |-> <<104, 101, 97, 100>>, cmap |-> <<99, 109, 97, 112>>,
   hhea |-> <<104, 104, 101, 97>>, hmtx |-> <<104, 109, 116, 120>>,
   maxp |-> <<109, 97, 120, 112>>, glyf |-> <<103, 108, 121, 102>>,
   loca |-> <<108, 111, 99, 97>>, CFF |-> <<67, 70, 70, 32>>,
   fvar |-> <<102, 118, 97, 114>>]

\* sfntVersion, numTables, searchRange/entrySelector/rangeShift, then one
\* 16-byte record (tag, checksum, offset, length) per table
RECURSIVE TableRecords(_, _)
TableRecords(tags, k) ==
  IF k > Len(tags) THEN <<>>
  ELSE tags[k] \o <<0, 0, 0, 0, 0, 0, 0, k, 0, 0, 0, 1>> \o TableRecords(tags, k + 1)

MkDirectory(tags) ==
  <<0, 1, 0, 0, 0, Len(tags), 0, 0, 0, 0, 0, 0>> \o TableRecords(tags, 1)

TrueTypeTables ==
  <<Tag.head, Tag.cmap, Tag.hhea, Tag.hmtx, Tag.maxp, Tag.glyf, Tag.loca>>

CffTables == <<Tag.head, Tag.cmap, Tag.hhea, Tag.hmtx, Tag.maxp, Tag.CFF>>

\* glyph 1: on(0,0) off(10,0) on(10,10); glyph 2: composite of glyph 1 with
\* identity matrix and zero offset; glyph 3: its data lies past the buffer
GlyfTriangle ==
  <<0, 1, 0, 0, 0, 0, 0, 10, 0, 10, 0, 2, 0, 0, 55, 54, 55, 0, 10, 0, 0, 0, 10>>

GlyfComposite == <<255, 255, 0, 0, 0, 0, 0, 10, 0, 10, 0, 2, 0, 1, 0, 0>>

NoCff ==
  [failAt |-> "none", globalSubrs |-> <<>>, hasPrivate |-> FALSE, hasSubrs |-> FALSE,
   localSubrs |-> <<>>, hasCharStrings |-> FALSE, charStrings |-> <<>>]

\* glyph 0: endchar; glyph 1: a triangle drawn through local subroutine 1;
\* glyph 2: calls local subroutine 0, which calls itself
GoodCff ==
  [failAt |-> "none", globalSubrs |-> <<>>, hasPrivate |-> TRUE, hasSubrs |-> TRUE,
   localSubrs |-> << <<32, 10>>, <<144, 139, 5, 11>> >>,
   hasCharStrings |-> TRUE,
   charStrings |-> << <<14>>, <<149, 149, 21, 33, 10, 139, 144, 5, 14>>,
                      <<32, 10, 14>> >>]

BaseFont ==
  [directory |-> MkDirectory(TrueTypeTables), unitsPerEm |-> 1000, yMin |-> 0, yMax |-> 10,
   cmapFormat |-> 4, cmap |-> ("A" :> 1) @@ ("B" :> 2) @@ ("C" :> 3),
   ascender |-> 8, descender |-> 0 - 2,
   hmtx |-> <<[advanceWidth |-> 5, leftSideBearing |-> 0],
              [advanceWidth |-> 12, leftSideBearing |-> 1],
              [advanceWidth |-> 12, leftSideBearing |-> 1]>>,
   loca |-> <<0, 0, 23, 39, 50>>, glyfOffset |-> 0,
   bytes |-> GlyfTriangle \o GlyfComposite,
   axes |-> <<>>, cff |-> NoCff]

Axis(t, lo, d, hi) == [tag |-> t, min |-> lo, default |-> d, max |-> hi]

Fonts ==
  [ttf |-> BaseFont,
   var |-> [BaseFont EXCEPT !.directory = MkDirectory(TrueTypeTables \o <<Tag.fvar>>),
                            !.axes = <<Axis("wght", 100, 400, 900),
                                       Axis("wdth", 50, 100, 200)>>],
   var150 |-> [BaseFont EXCEPT !.directory = MkDirectory(TrueTypeTables \o <<Tag.fvar>>),
                               !.axes = <<Axis("wght", 100, 150, 900)>>],
   otf |-> [BaseFont EXCEPT !.directory = MkDirectory(CffTables), !.cff = GoodCff,
                            !.loca = <<>>, !.bytes = <<0>>],
   otfHdr |-> [BaseFont EXCEPT !.directory = MkDirectory(CffTables), !.loca = <<>>, !.bytes = <<0>>,
                               !.cff = [GoodCff EXCEPT !.failAt = "header"]],
   otfGsubr |-> [BaseFont EXCEPT !.directory = MkDirectory(CffTables), !.loca = <<>>, !.bytes = <<0>>,
                                 !.cff = [GoodCff EXCEPT !.failAt = "globalSubrIndex"]],
   otfPriv |-> [BaseFont EXCEPT !.directory = MkDirectory(CffTables), !.loca = <<>>, !.bytes = <<0>>,
                                !.cff = [GoodCff EXCEPT !.failAt = "privateDict"]],
   otfSubrs |-> [BaseFont EXCEPT !.directory = MkDirectory(CffTables), !.loca = <<>>, !.bytes = <<0>>,
                                 !.cff = [GoodCff EXCEPT !.failAt = "localSubrs"]],
   otfChars |-> [BaseFont EXCEPT !.directory = MkDirectory(CffTables), !.loca = <<>>, !.bytes = <<0>>,
                                 !.cff = [GoodCff EXCEPT !.failAt = "charStrings"]],
   nohead |-> [BaseFont EXCEPT !.directory = MkDirectory(Tail(TrueTypeTables))],
   noglyf |-> [BaseFont EXCEPT !.directory =
                               MkDirectory(SelectSeq(TrueTypeTables,
                                                     LAMBDA t : t # Tag.glyf))],
   cmap6 |-> [BaseFont EXCEPT !.cmapFormat = 6],
   short |-> [BaseFont EXCEPT !.directory = SubSeq(@, 1, 40)]]

(***************************************************************************)
(* The FontParser object.  buffer is the loaded buffer (NoBuffer before    *)
(* the first load), tables maps the tags read from the directory to their  *)
(* records; the fields are those of the constructor.  Every decode seeks before it reads, so this.offset        *)
(* carries nothing from one call to the next and is not kept.              *)
(***************************************************************************)
NoBuffer == [isNull |-> TRUE]

NewParser ==
  [buffer |-> NoBuffer, tables |-> EmptyMap, fontType |-> "null", unitsPerEm |-> 1000,
   yMin |-> 0, yMax |-> 0, ascender |-> 0, descender |-> 0,
   horizontalMetrics |-> <<>>, charToGlyph |-> EmptyMap, glyphCache |-> EmptyMap,
   glyphOffsets |-> <<>>, isVariableFont |-> FALSE, variationAxes |-> <<>>,
   currentAxisValues |-> EmptyMap,
   cffData |-> [isNull |-> TRUE, charStringsOffset |-> FALSE, privateDict |-> FALSE],
   cffCharStrings |-> <<>>, cffGlobalSubrs |-> <<>>, cffLocalSubrs |-> <<>>,
   cffGlobalBias |-> 107, cffLocalBias |-> 107]

\* the outcome of a parsing step: the parser after it and the Error thrown
Step(q, e) == [p |-> q, err |-> e]

Then(r, Op(_)) == IF r.err # "none" THEN r ELSE Op(r.p)

_initializeFont(p, f) ==
  [p EXCEPT !.buffer = f, !.tables = EmptyMap, !.glyphCache = EmptyMap,
            !.charToGlyph = EmptyMap]

hasTable(p, tag) == tag \in DOMAIN p.tables

\* the loop over the table records from record i on, the cursor at o
RECURSIVE _parseTableDirectory(_, _, _, _, _)
_parseTableDirectory(p, buf, o, numTables, i) ==
  IF i >= numTables THEN Step(p, "none")
  ELSE LET tag == readTag(buf, o)
           checksum == readUint32(buf, tag.off)
           offset == readUint32(buf, checksum.off)
           length == readUint32(buf, offset.off)
       IN  IF ~tag.ok THEN Step(p, tag.err)
           ELSE IF ~checksum.ok THEN Step(p, checksum.err)
           ELSE IF ~offset.ok THEN Step(p, offset.err)
           ELSE IF ~length.ok THEN Step(p, length.err)
           ELSE _parseTableDirectory(
                  [p EXCEPT !.tables =
                     [t \in DOMAIN @ \cup {tag.val} |->
                        IF t = tag.val
                        THEN [tag |-> tag.val, offset |-> offset.val,
                              length |-> length.val]
                        ELSE @[t]]],
                  buf, length.off, numTables, i + 1)

\* the head of _parseFont: sfntVersion, numTables, six bytes skipped without
\* a bounds check, then the table records
readDirectory(p, buf) ==
  LET sfntVersion == readUint32(buf, 0)
      numTables == readUint16(buf, sfntVersion.off)
  IN  IF ~sfntVersion.ok THEN Step(p, sfntVersion.err)
      ELSE IF ~numTables.ok THEN Step(p, numTables.err)
      ELSE _parseTableDirectory(p, buf, numTables.off + 6, numTables.val, 0)

_parseHeadTable(p, font) ==
  IF ~hasTable(p, Tag.head) THEN Step(p, "MissingTable")
  ELSE Step([p EXCEPT !.unitsPerEm = font.unitsPerEm, !.yMin = font.yMin,
                      !.yMax = font.yMax], "none")

_parseCmapTable(p, font) ==
  IF ~hasTable(p, Tag.cmap) THEN Step(p, "MissingTable")
  ELSE IF font.cmapFormat \notin {4, 12} THEN Step(p, "UnsupportedCmapFormat")
  ELSE Step([p EXCEPT !.charToGlyph = font.cmap], "none")

_parseHmtxTable(p, font) ==
  IF ~hasTable(p, Tag.hmtx) \/ ~hasTable(p, Tag.hhea) THEN Step(p, "none")
  ELSE Step([p EXCEPT !.ascender = font.ascender, !.descender = font.descender,
                      !.horizontalMetrics = font.hmtx], "none")

_parseLocaTable(p, font) ==
  IF ~hasTable(p, Tag.maxp) \/ ~hasTable(p, Tag.loca) THEN Step(p, "MissingTable")
  ELSE Step([p EXCEPT !.glyphOffsets = font.loca], "none")

subrBias(n) == IF n < 1240 THEN 107 ELSE IF n < 33900 THEN 1131 ELSE 32768

\* the catch block without this.cffCharStrings = []
cffFallbackKeepsCharStrings(p) ==
  [p EXCEPT !.fontType = "cff",
            !.cffData = [isNull |-> FALSE, charStringsOffset |-> FALSE,
                         privateDict |-> FALSE]]

\* the catch block of _parseCFFTable
cffFallback(p) ==
  [p EXCEPT !.fontType = "cff", !.cffCharStrings = <<>>,
            !.cffData = [isNull |-> FALSE, charStringsOffset |-> FALSE,
                         privateDict |-> FALSE]]

\* the try block runs up to the step that throws; what it assigned before
\* stays assigned
_parseCFFTable(p, font) ==
  LET c == font.cff
      p1 == [p EXCEPT !.cffGlobalSubrs = c.globalSubrs,
                      !.cffGlobalBias = subrBias(Len(c.globalSubrs))]
      p2 == [p1 EXCEPT !.cffData = [isNull |-> FALSE,
                                    charStringsOffset |-> c.hasCharStrings,
                                    privateDict |-> c.hasPrivate]]
      p3 == IF ~p2.cffData.privateDict THEN p2
            ELSE IF c.hasSubrs
            THEN [p2 EXCEPT !.cffLocalSubrs = c.localSubrs,
                            !.cffLocalBias = subrBias(Len(c.localSubrs))]
            ELSE [p2 EXCEPT !.cffLocalSubrs = <<>>, !.cffLocalBias = 0]
      p4 == IF p3.cffData.charStringsOffset
            THEN [p3 EXCEPT !.cffCharStrings = c.charStrings] ELSE p3
  IN  IF c.failAt \in {"header", "nameIndex", "topDictIndex", "stringIndex",
                       "globalSubrIndex"}
      THEN cffFallback(p)
      ELSE IF c.failAt = "privateDict" /\ p2.cffData.privateDict THEN cffFallback(p2)
      ELSE IF c.failAt = "localSubrs" /\ p2.cffData.privateDict /\ c.hasSubrs
        THEN cffFallback(p2)
      ELSE IF c.failAt = "charStrings" /\ p3.cffData.charStringsOffset
        THEN cffFallback(p3)
      ELSE p4

\* _determineFontType with the CFF test first
_determineFontTypeCffFirst(p, font) ==
  IF hasTable(p, Tag.CFF)
  THEN Step(_parseCFFTable([p EXCEPT !.fontType = "cff"], font), "none")
  ELSE IF hasTable(p, Tag.glyf) /\ hasTable(p, Tag.loca)
  THEN _parseLocaTable([p EXCEPT !.fontType = "truetype"], font)
  ELSE Step(p, "UnsupportedFontType")

_determineFontType(p, font) ==
  IF hasTable(p, Tag.glyf) /\ hasTable(p, Tag.loca)
  THEN _parseLocaTable([p EXCEPT !.fontType = "truetype"], font)
  ELSE IF hasTable(p, Tag.CFF)
  THEN Step(_parseCFFTable([p EXCEPT !.fontType = "cff"], font), "none")
  ELSE Step(p, "UnsupportedFontType")

axisDefaults(axes) ==
  [t \in {axes[k].tag : k \in 1..Len(axes)} |->
     axes[CHOOSE k \in 1..Len(axes) :
            axes[k].tag = t /\ \A j \in (k + 1)..Len(axes) : axes[j].tag # t].default]

\* _parseVariableFontTables with _parseFvarTable
_parseVariableFontTables(p, font) ==
  IF hasTable(p, Tag.fvar)
  THEN Step([p EXCEPT !.isVariableFont = TRUE, !.variationAxes = font.axes,
                      !.currentAxisValues = axisDefaults(font.axes)], "none")
  ELSE Step([p EXCEPT !.isVariableFont = FALSE], "none")

_parseFont(p, font) ==
  LET head(q) == _parseHeadTable(q, font)
      cmap(q) == _parseCmapTable(q, font)
      hmtx(q) == _parseHmtxTable(q, font)
      type(q) == _determineFontType(q, font)
      fvar(q) == _parseVariableFontTables(q, font)
  IN  Then(Then(Then(Then(Then(readDirectory(p, font.directory), head), cmap),
                     hmtx), type), fvar)

\* fromBuffer(fontBuffer): the parser after the call and the Error it threw
fromBuffer(p, f) == _parseFont(_initializeFont(p, f), f)

(***************************************************************************)
(* Query and render operations.  Each returns [p, ret, err]: the parser    *)
(* after the call, the value returned, and the Error thrown ("none").      *)
(***************************************************************************)
Call(q, r, e) == [p |-> q, ret |-> r, err |-> e]

\* clampAxis without the lower bound
clampAxisUpperOnly(axis, value) == MathMin(axis.max, value)

clampAxis(axis, value) == MathMax(axis.min, MathMin(axis.max, value))

\* this.variationAxes.find((a) => a.tag === tag)
findAxis(axes, tag) ==
  axes[CHOOSE k \in 1..Len(axes) :
         axes[k].tag = tag /\ \A j \in 1..(k - 1) : axes[j].tag # tag]

hasAxis(axes, tag) == \E k \in 1..Len(axes) : axes[k].tag = tag

\* setVariation without this.glyphCache.clear()
setVariationKeepsCache(p, axisValues) ==
  IF ~p.isVariableFont THEN p
  ELSE LET set == {t \in DOMAIN axisValues : hasAxis(p.variationAxes, t)}
       IN  [p EXCEPT !.currentAxisValues =
                       [t \in DOMAIN p.currentAxisValues \cup set |->
                          IF t \in set
                          THEN clampAxis(findAxis(p.variationAxes, t), axisValues[t])
                          ELSE p.currentAxisValues[t]]]

setVariation(p, axisValues) ==
  IF ~p.isVariableFont THEN p
  ELSE LET set == {t \in DOMAIN axisValues : hasAxis(p.variationAxes, t)}
       IN  [p EXCEPT !.currentAxisValues =
                       [t \in DOMAIN p.currentAxisValues \cup set |->
                          IF t \in set
                          THEN clampAxis(findAxis(p.variationAxes, t), axisValues[t])
                          ELSE p.currentAxisValues[t]],
                     !.glyphCache = EmptyMap]

\* getGlyphId answering 1 (not 0) for a code point that is not mapped
getGlyphIdUnmappedIsOne(p, character) ==
  IF character \in DOMAIN p.charToGlyph THEN p.charToGlyph[character] ELSE 1

\* this.charToGlyph.get(codePoint) || 0
getGlyphId(p, character) ==
  IF character \in DOMAIN p.charToGlyph THEN p.charToGlyph[character] ELSE 0

\* advanceWidth and leftSideBearing as numerators over XDen
getGlyphMetrics(p, glyphId) ==
  IF glyphId >= Len(p.horizontalMetrics)
  THEN [advanceWidth |-> p.unitsPerEm * XDen, leftSideBearing |-> 0]
  ELSE LET baseMetrics == p.horizontalMetrics[glyphId + 1]
           wdth == axisOr(p.currentAxisValues, "wdth", 100)
       IN  IF p.isVariableFont
           THEN [advanceWidth |-> baseMetrics.advanceWidth * wdth,
                 leftSideBearing |-> baseMetrics.leftSideBearing * wdth]
           ELSE [advanceWidth |-> baseMetrics.advanceWidth * XDen,
                 leftSideBearing |-> baseMetrics.leftSideBearing * XDen]

ftOf(p) ==
  [buffer |-> IF p.buffer = NoBuffer THEN <<>> ELSE p.buffer.bytes,
   hasGlyf |-> p.buffer # NoBuffer /\ hasTable(p, Tag.glyf),
   glyfOffset |-> IF p.buffer = NoBuffer THEN 0 ELSE p.buffer.glyfOffset,
   glyphOffsets |-> p.glyphOffsets]

cffOf(p) ==
  [cffCharStrings |-> p.cffCharStrings, cffLocalSubrs |-> p.cffLocalSubrs,
   cffGlobalSubrs |-> p.cffGlobalSubrs, cffLocalBias |-> p.cffLocalBias,
   cffGlobalBias |-> p.cffGlobalBias]

\* the glyph decoded from the buffer, before blending
decodeGlyph(p, glyphId) ==
  IF p.fontType = "cff" THEN parseCFFGlyph(cffOf(p), glyphId)
  ELSE parseTrueTypeGlyph(ftOf(p), glyphId, 0, 1)

\* parseGlyph with a cache hit served as the unblended base glyph
parseGlyphServesBase(p, glyphId) ==
  LET store(glyph) ==
        Call([p EXCEPT !.glyphCache = (glyphId :> glyph) @@ @], GlyphOk(glyph, 0), "none")
      blend(baseGlyph) ==
        IF glyphId \in DOMAIN p.glyphCache
        THEN Call(p, GlyphOk(unblended(baseGlyph.glyph), 0), "none")
        ELSE IF baseGlyph.st = "throw" THEN Call(p, baseGlyph, baseGlyph.err)
        ELSE IF baseGlyph.st = "null" THEN Call(p, baseGlyph, "none")
        ELSE store(applyVariationToGlyph(p.isVariableFont, p.currentAxisValues,
                                         baseGlyph.glyph))
  IN  blend(decodeGlyph(p, glyphId))

\* ret is a decode result whose glyph (st = "glyph") is the blended glyph
parseGlyph(p, glyphId) ==
  LET \* this.glyphCache.set(glyphId, glyph); return glyph
      store(glyph) ==
        Call([p EXCEPT !.glyphCache = (glyphId :> glyph) @@ @], GlyphOk(glyph, 0), "none")
      blend(baseGlyph) ==
        IF baseGlyph.st = "throw" THEN Call(p, baseGlyph, baseGlyph.err)
        ELSE IF baseGlyph.st = "null" THEN Call(p, baseGlyph, "none")
        ELSE store(applyVariationToGlyph(p.isVariableFont, p.currentAxisValues,
                                         baseGlyph.glyph))
  IN  IF glyphId \in DOMAIN p.glyphCache
      THEN Call(p, GlyphOk(p.glyphCache[glyphId], 0), "none")
      ELSE blend(decodeGlyph(p, glyphId))

glyphToSVGPath(p, character, opt) ==
  LET pathOf(r) ==
        IF r.err # "none" THEN Call(r.p, <<>>, r.err)
        ELSE IF r.ret.st = "null" \/ Len(r.ret.glyph.contours) = 0
          THEN Call(r.p, <<>>, "none")
        ELSE Call(r.p, glyphPath(r.ret.glyph, opt), "none")
  IN  pathOf(parseGlyph(p, getGlyphId(p, character)))

NoBounds == [isNull |-> TRUE, minX |-> 0, minY |-> 0, maxX |-> 0, maxY |-> 0]

getGlyphBounds(p, character, opt) ==
  LET boundsOf(r) ==
        IF r.err # "none" THEN Call(r.p, NoBounds, r.err)
        ELSE IF r.ret.st = "null" \/ Len(r.ret.glyph.contours) = 0
          THEN Call(r.p, NoBounds, "none")
        ELSE Call(r.p, [isNull |-> FALSE] @@ glyphBounds(r.ret.glyph, opt), "none")
  IN  boundsOf(parseGlyph(p, getGlyphId(p, character)))

(***************************************************************************)
(* Text layout.  options = [size, kerning, variable]; the model's sizes    *)
(* are whole multiples of unitsPerEm and of 10, so that scale, the space   *)
(* advance 0.3*size and the padding 0.1*size are whole numbers.  Pen       *)
(* positions are numerators over XUnit, vertical positions over YUnit.     *)
(***************************************************************************)
\* this.ascender || this.yMax || this.unitsPerEm * 0.8
layoutAscender(p) ==
  IF p.ascender # 0 THEN p.ascender
  ELSE IF p.yMax # 0 THEN p.yMax ELSE (p.unitsPerEm * 8) \div 10

\* the for loop of _generateCharacterPaths from character k on; acc is
\* [p, err, paths, currentX, ys] with ys the bounds.minY/maxY seen so far
RECURSIVE layoutLoop(_, _, _, _, _)
layoutLoop(text, k, opts, scale, acc) ==
  IF k > Len(text) \/ acc.err # "none" THEN acc
  ELSE
  LET char == text[k]
      gopt == [scale |-> scale, flipY |-> TRUE, offsetX |-> acc.currentX,
               offsetY |-> layoutAscender(acc.p) * scale * YUnit]
      \* this.getGlyphMetrics(glyphId).advanceWidth * scale
      advanceOf(q) ==
        2 * getGlyphMetrics(q, getGlyphId(acc.p, char)).advanceWidth * scale
      \* the character is pushed and the pen advances
      placed(pathData, bounds, advance) ==
        layoutLoop(text, k + 1, opts, scale,
                   [acc EXCEPT !.p = bounds.p,
                               !.paths = Append(@, [char |-> char, path |-> pathData.ret,
                                                    x |-> acc.currentX,
                                                    y |-> gopt.offsetY,
                                                    advance |-> advance]),
                               !.ys = IF bounds.ret.isNull THEN @
                                      ELSE @ \o <<bounds.ret.minY, bounds.ret.maxY>>,
                               !.currentX = @ + advance + opts.kerning * advance])
      measured(pathData, bounds) ==
        IF bounds.err # "none" THEN [acc EXCEPT !.p = bounds.p, !.err = bounds.err]
        ELSE placed(pathData, bounds, advanceOf(bounds.p))
      \* an empty path: nothing is pushed, the pen advances
      skipped(q, advance) ==
        layoutLoop(text, k + 1, opts, scale,
                   [acc EXCEPT !.p = q,
                               !.currentX = @ + advance + opts.kerning * advance])
      drawn(pathData) ==
        IF pathData.err # "none"
        THEN [acc EXCEPT !.p = pathData.p, !.err = pathData.err]
        ELSE IF pathData.ret = <<>> THEN skipped(pathData.p, advanceOf(pathData.p))
        ELSE measured(pathData, getGlyphBounds(pathData.p, char, gopt))
  IN  IF char = " "
      THEN layoutLoop(text, k + 1, opts, scale,
                      [acc EXCEPT !.currentX = @ + ((opts.size * 3) \div 10) * XUnit])
      ELSE drawn(glyphToSVGPath(acc.p, char, gopt))

NoLayout ==
  [characters |-> <<>>, width |-> 0, height |-> 0, baseline |-> 0,
   viewBox |-> [x |-> 0, y |-> 0, width |-> 0, height |-> 0]]

\* path(text, options) with _generateCharacterPaths and _calculateViewBox
path(p, text, opts) ==
  IF p.buffer = NoBuffer THEN Call(p, NoLayout, "NoFontLoaded")
  ELSE
  LET scale == opts.size \div p.unitsPerEm
      scaledAscender == layoutAscender(p) * scale * YUnit
      paddingX == (opts.size \div 10) * XUnit
      paddingY == (opts.size \div 10) * YUnit
      \* _calculateViewBox and the returned object
      viewBox(r, minY, maxY) ==
        Call(r.p,
             [characters |-> r.paths, width |-> r.currentX, height |-> maxY - minY,
              baseline |-> scaledAscender,
              viewBox |-> [x |-> 0 - paddingX, y |-> minY - paddingY,
                           width |-> r.currentX + 2 * paddingX,
                           height |-> maxY - minY + 2 * paddingY]],
             "none")
      laidOut(r) ==
        IF r.err # "none" THEN Call(r.p, NoLayout, r.err)
        ELSE viewBox(r, FiniteMin(r.ys),
                     IF r.ys = <<>> THEN scaledAscender ELSE FiniteMax(r.ys))
  IN  laidOut(layoutLoop(text, 1, opts, scale,
                         [p |-> IF p.isVariableFont THEN setVariation(p, opts.variable)
                                ELSE p,
                          err |-> "none", paths |-> <<>>, currentX |-> 0,
                          ys |-> <<>>]))

(***************************************************************************)
(* The parser as a state machine.                                          *)
(*   parser  the FontParser object                                         *)
(*   result  the last call: its name, arguments, returned value and Error  *)
(*   probe   one (character, options) pair, fixed at the start             *)
(*   seen    the pathFor output last returned for probe since the last     *)
(*           load or axis-set call, and how many such calls there were     *)
(*           (history; the count stops at 2)                               *)
(* result.hadCache and result.changed record, for a load or axis-set call, *)
(* whether the glyph cache held a glyph before it and whether it changed   *)
(* the current axis values.                                                *)
(***************************************************************************)
VARIABLES parser, result, probe, seen

vars == <<parser, result, probe, seen>>

Chars == {"A", "B", "C"}

PathOpts ==
  <<[scale |-> 1, flipY |-> TRUE, offsetX |-> 0, offsetY |-> 0],
    [scale |-> 2, flipY |-> FALSE, offsetX |-> 3 * XUnit, offsetY |-> 0]>>

Probes == {<<"A", 1>>, <<"B", 2>>}

AxisInputs ==
  {("wght" :> 50), ("wght" :> 150), ("wght" :> 1000), ("wdth" :> 250),
   ("wght" :> 400) @@ ("wdth" :> 100), ("slnt" :> 5)}

Texts == {<<"A", " ", "B">>, <<"A", "C", "B">>}

LayoutOpts ==
  {[size |-> 1000, kerning |-> 0, variable |-> EmptyMap],
   [size |-> 2000, kerning |-> 1, variable |-> ("wght" :> 150)]}

NoResult ==
  [op |-> "new", char |-> "", opt |-> 0, glyphId |-> 0, axisValues |-> EmptyMap,
   text |-> <<>>, hadCache |-> FALSE, changed |-> FALSE, err |-> "none",
   path |-> <<>>, bounds |-> NoBounds,
   metrics |-> [advanceWidth |-> 0, leftSideBearing |-> 0], layout |-> NoLayout]

NotSeen == [calls |-> 0, path |-> <<>>, err |-> "none"]

Init ==
  /\ parser = NewParser
  /\ result = NoResult
  /\ probe \in Probes
  /\ seen = NotSeen

\* loadFromBuffer
Load(f) ==
  \E r \in {fromBuffer(parser, f)} :
    /\ parser' = r.p
    /\ result' = [NoResult EXCEPT !.op = "fromBuffer", !.err = r.err,
                                  !.hadCache = parser.glyphCache # EmptyMap]
    /\ seen' = NotSeen
    /\ UNCHANGED probe

\* setAxisValues
SetAxisValues(av) ==
  /\ parser' = setVariation(parser, av)
  /\ result' = [NoResult EXCEPT !.op = "setAxisValues", !.axisValues = av,
                                !.hadCache = parser.glyphCache # EmptyMap,
                                !.changed = parser'.currentAxisValues
                                              # parser.currentAxisValues]
  /\ seen' = NotSeen
  /\ UNCHANGED probe

\* glyphIndexFor
GlyphIndexFor(c) ==
  /\ result' = [NoResult EXCEPT !.op = "glyphIndexFor", !.char = c,
                                !.glyphId = getGlyphId(parser, c)]
  /\ UNCHANGED <<parser, probe, seen>>

\* metricsFor
MetricsFor(g) ==
  /\ result' = [NoResult EXCEPT !.op = "metricsFor", !.glyphId = g,
                                !.metrics = getGlyphMetrics(parser, g)]
  /\ UNCHANGED <<parser, probe, seen>>

\* pathFor
PathFor(c, k) ==
  \E r \in {glyphToSVGPath(parser, c, PathOpts[k])} :
    /\ parser' = r.p
    /\ result' = [NoResult EXCEPT !.op = "pathFor", !.char = c, !.opt = k,
                                  !.err = r.err, !.path = r.ret]
    /\ seen' = IF <<c, k>> = probe
               THEN [calls |-> IF seen.calls = 0 THEN 1 ELSE 2,
                     path |-> r.ret, err |-> r.err]
               ELSE seen
    /\ UNCHANGED probe

\* boundsFor
BoundsFor(c, k) ==
  \E r \in {getGlyphBounds(parser, c, PathOpts[k])} :
    /\ parser' = r.p
    /\ result' = [NoResult EXCEPT !.op = "boundsFor", !.char = c, !.opt = k,
                                  !.err = r.err, !.bounds = r.ret]
    /\ UNCHANGED <<probe, seen>>

\* layoutText; with axis values it is an axis-set call as well
LayoutText(t, o) ==
  \E r \in {path(parser, t, o)} :
    /\ parser' = r.p
    /\ result' = [NoResult EXCEPT !.op = "layoutText", !.text = t,
                                  !.axisValues = o.variable,
                                  !.err = r.err, !.layout = r.ret]
    /\ seen' = IF o.variable = EmptyMap THEN seen ELSE NotSeen
    /\ UNCHANGED probe

(***************************************************************************)
(* Variable fonts: loads, axis settings, rendering and layout.             *)
(***************************************************************************)
LoadedFonts == {Fonts.var, Fonts.var150}

Next ==
  \/ \E f \in LoadedFonts : Load(f)
  \/ \E av \in AxisInputs : SetAxisValues(av)
  \/ \E c \in Chars : GlyphIndexFor(c)
  \/ \E g \in 0..1 : MetricsFor(g)
  \/ \E c \in Chars, k \in 1..Len(PathOpts) : PathFor(c, k)
  \/ \E c \in Chars : BoundsFor(c, 1)
  \/ \E t \in Texts, o \in LayoutOpts : LayoutText(t, o)

Spec == Init /\ [][Next]_vars

\* C2: a pathFor call with the character and options of an earlier pathFor
\* call, with no load and no axis-set call between the two, returns exactly
\* what the earlier call returned (the same path, or the same Error).
C2_CacheCoherent ==
  [][(result'.op = "pathFor" /\ <<result'.char, result'.opt>> = probe
        /\ seen.calls > 0)
       => (result'.path = seen.path /\ result'.err = seen.err)]_vars

\* a second call for the probed pair on a variable font blended away from
\* the base outline, answered from the cache with a path
C2_Witness ==
  /\ seen.calls = 2
  /\ result.op = "pathFor" /\ <<result.char, result.opt>> = probe
  /\ result.path # <<>>
  /\ parser.isVariableFont
  /\ parser.currentAxisValues["wght"] = 900
  /\ getGlyphId(parser, result.char) \in DOMAIN parser.glyphCache

\* C3: right after a setAxisValues call that changed an axis value, and
\* right after every load, the glyph cache holds no glyph: nothing decoded
\* before the call can be served from it.
C3_CacheInvalidated ==
  /\ result.op = "fromBuffer" => parser.glyphCache = EmptyMap
  /\ (result.op = "setAxisValues" /\ result.changed) => parser.glyphCache = EmptyMap

\* an axis-set call that changed a value while the cache held a glyph
C3_Witness ==
  /\ result.op = "setAxisValues" /\ result.changed /\ result.hadCache
  /\ parser.glyphCache = EmptyMap

\* C4: after setAxisValues on a variable font, every tag of the call that
\* is an axis of the font holds the requested value clamped into the axis's
\* [min, max] (the nearest bound when outside), and a tag that is no axis
\* of the font is not stored.
C4_Clamped ==
  (result.op = "setAxisValues" /\ parser.isVariableFont) =>
    \A t \in DOMAIN result.axisValues :
      IF hasAxis(parser.variationAxes, t)
      THEN LET axis == findAxis(parser.variationAxes, t)
               v == result.axisValues[t]
           IN  parser.currentAxisValues[t] =
                 IF v < axis.min THEN axis.min
                 ELSE IF v > axis.max THEN axis.max ELSE v
      ELSE t \notin DOMAIN parser.currentAxisValues

\* a request below the axis minimum stored as the minimum
C4_Witness ==
  /\ result.op = "setAxisValues" /\ parser.isVariableFont
  /\ result.axisValues = ("wght" :> 50)
  /\ parser.currentAxisValues["wght"] = 100

\* C5: on a variable font whose current axis values are the axes' defaults,
\* every blended glyph has the bounding box of the base glyph decoded from
\* the font.
C5_DefaultsReproduceBase ==
  (parser.isVariableFont
     /\ parser.currentAxisValues = axisDefaults(parser.variationAxes)) =>
    \A g \in DOMAIN parser.glyphCache :
      LET blended == parser.glyphCache[g]
          base == unblended(decodeGlyph(parser, g).glyph)
      IN  <<blended.xMin, blended.yMin, blended.xMax, blended.yMax>>
            = <<base.xMin, base.yMin, base.xMax, base.yMax>>

(***************************************************************************)
(* Static fonts, TrueType and CFF, among them CFF tables that fail to      *)
(* decode: loads, queries, rendering and layout.                           *)
(***************************************************************************)
StaticFonts ==
  {Fonts.ttf, Fonts.otf, Fonts.otfHdr, Fonts.otfGsubr, Fonts.otfPriv,
   Fonts.otfSubrs, Fonts.otfChars}

NextStatic ==
  \/ \E f \in StaticFonts : Load(f)
  \/ \E c \in Chars : GlyphIndexFor(c)
  \/ \E g \in 0..3 : MetricsFor(g)
  \/ \E c \in Chars : PathFor(c, 1)
  \/ \E c \in Chars : BoundsFor(c, 1)
  \/ \E t \in Texts : LayoutText(t, [size |-> 1000, kerning |-> 1,
                                     variable |-> EmptyMap])

SpecStatic == Init /\ [][NextStatic]_vars

\* the glyph of a character cannot be decoded: its data is out of range,
\* truncated or malformed
Undecodable(p, c) == decodeGlyph(p, getGlyphId(p, c)).st # "glyph"

\* the layout width when undecodable characters advance the pen by nothing
RECURSIVE WidthSkipping(_, _, _, _)
WidthSkipping(p, text, k, opts) ==
  IF k > Len(text) THEN 0
  ELSE LET c == text[k]
           scale == opts.size \div p.unitsPerEm
           advance == 2 * getGlyphMetrics(p, getGlyphId(p, c)).advanceWidth * scale
       IN  WidthSkipping(p, text, k + 1, opts)
           + (IF c = " " THEN ((opts.size * 3) \div 10) * XUnit
              ELSE IF Undecodable(p, c) THEN 0
              ELSE advance + opts.kerning * advance)

\* C8: with a font loaded, pathFor on a character whose glyph cannot be
\* decoded returns the empty path without failing, and layoutText does not
\* fail either: such a character adds no geometry and no pen advance.
C8_UndecodableIsEmpty ==
  parser.buffer # NoBuffer =>
    /\ (result.op = "pathFor" /\ Undecodable(parser, result.char))
         => (result.err = "none" /\ result.path = <<>>)
    /\ result.op = "layoutText"
         => /\ result.err = "none"
            /\ \A k \in 1..Len(result.layout.characters) :
                 ~Undecodable(parser, result.layout.characters[k].char)
            /\ result.layout.width
                 = WidthSkipping(parser, result.text, 1,
                                 [size |-> 1000, kerning |-> 1])

\* a step of CFF decoding throws for this buffer
CffDecodingFails(f) ==
  /\ f # NoBuffer
  /\ \/ f.cff.failAt \in {"header", "nameIndex", "topDictIndex", "stringIndex",
                          "globalSubrIndex"}
     \/ f.cff.failAt = "privateDict" /\ f.cff.hasPrivate
     \/ f.cff.failAt = "localSubrs" /\ f.cff.hasPrivate /\ f.cff.hasSubrs
     \/ f.cff.failAt = "charStrings" /\ f.cff.hasCharStrings

\* C9: when a step of CFF decoding fails, the load still succeeds, the
\* font type is "cff", there are no CharStrings, and every pathFor
\* afterwards returns the empty path.
C9_CffDegrades ==
  (hasTable(parser, Tag.CFF) /\ CffDecodingFails(parser.buffer)) =>
    /\ result.op = "fromBuffer" => result.err = "none"
    /\ parser.fontType = "cff"
    /\ parser.cffCharStrings = <<>>
    /\ result.op = "pathFor" => (result.err = "none" /\ result.path = <<>>)

\* pathFor after a load whose CharStrings INDEX failed to decode, the
\* subroutine tables before it having been read
C9_Witness ==
  /\ parser.buffer = Fonts.otfChars
  /\ parser.cffLocalSubrs # <<>>
  /\ result.op = "pathFor" /\ result.char = "A"
  /\ result.path = <<>>

(***************************************************************************)
(* Buffers that end anywhere in or right after the table directory.        *)
(***************************************************************************)
DirTagLists == {<<>>, <<Tag.head>>, <<Tag.cmap>>, <<Tag.head, Tag.cmap>>}

DirFonts ==
  UNION {{[Fonts.ttf EXCEPT !.directory = SubSeq(MkDirectory(tags), 1, n)] :
            n \in 0..Len(MkDirectory(tags))} : tags \in DirTagLists}

NextDir ==
  \/ \E f \in DirFonts : Load(f)
  \/ \E c \in {"A"} : PathFor(c, 1)

SpecDir == Init /\ [][NextDir]_vars

\* the buffer is shorter than the directory its header declares (a header
\* too short to hold numTables declares nothing that fits)
DirectoryTruncated(buf) ==
  Len(buf) < 12 + 16 * (IF Len(buf) >= 6 THEN buf[5] * 256 + buf[6] ELSE 0)

\* C7: loading a buffer shorter than the 12 + 16*numTables bytes of the
\* table directory its header declares fails with UnexpectedEnd or
\* OutOfRange.
C7_TruncatedDirectoryFails ==
  (result.op = "fromBuffer" /\ DirectoryTruncated(parser.buffer.directory))
    => result.err \in {"UnexpectedEnd", "OutOfRange"}

(***************************************************************************)
(* TrueType outlines: one font per simple glyph over up to three points    *)
(* and two contours, and per composite glyph of one or two components.     *)
(***************************************************************************)
XDeltas == <<0, 10, 0>>

YDeltas == <<0, 0, 10>>

\* glyph data: numberOfContours, bounding box, endPtsOfContours, no
\* instructions, one flag byte per point (short positive deltas), the deltas
SimpleGlyphBytes(endPts, onCurve) ==
  <<0, Len(endPts), 0, 0, 0, 0, 0, 10, 0, 10>>
  \o Flatten([k \in 1..Len(endPts) |-> <<0, endPts[k]>>])
  \o <<0, 0>>
  \o [j \in 1..Len(onCurve) |-> 54 + onCurve[j]]
  \o SubSeq(XDeltas, 1, Len(onCurve))
  \o SubSeq(YDeltas, 1, Len(onCurve))

SimpleGlyphs ==
  UNION {{SimpleGlyphBytes(<<np - 1>>, on) : on \in [1..np -> {0, 1}]}
         \cup {SimpleGlyphBytes(<<e, np - 1>>, on) :
                 e \in 0..(np - 1), on \in [1..np -> {0, 1}]} : np \in 1..3}

\* one component record: ARGS_ARE_XY_VALUES, MORE_COMPONENTS when another
\* follows, byte arguments; "flip" carries WE_HAVE_A_SCALE with scale -1.0
ComponentBytes(c, more) ==
  <<0, 2 + (IF more THEN 32 ELSE 0) + (IF c.kind = "flip" THEN 8 ELSE 0),
    0, c.glyphIndex>>
  \o (IF c.kind = "offset" THEN <<3, 4>> ELSE <<0, 0>>)
  \o (IF c.kind = "flip" THEN <<192, 0>> ELSE <<>>)

CompositeGlyphBytes(cs) ==
  <<255, 255, 0, 0, 0, 0, 0, 10, 0, 10>>
  \o Flatten([k \in 1..Len(cs) |-> ComponentBytes(cs[k], k < Len(cs))])

Components == [glyphIndex : {1, 2}, kind : {"identity", "offset", "flip"}]

CompositeGlyphs ==
  {CompositeGlyphBytes(<<c>>) : c \in Components}
  \cup {CompositeGlyphBytes(<<c, d>>) : c \in Components, d \in Components}
  \cup {CompositeGlyphBytes(<<[glyphIndex |-> 3, kind |-> "identity"]>>)}

GlyfLine == SimpleGlyphBytes(<<1>>, <<1, 1>>)

\* "A" is the glyph under study; a composite's components are glyphs 1, 2
GlyphFonts ==
  {[Fonts.ttf EXCEPT !.bytes = g, !.loca = <<0, 0, Len(g)>>, !.cmap = ("A" :> 1)] :
     g \in SimpleGlyphs}
  \cup {[Fonts.ttf EXCEPT !.bytes = GlyfTriangle \o GlyfLine \o g,
                          !.loca = <<0, 0, Len(GlyfTriangle),
                                     Len(GlyfTriangle) + Len(GlyfLine),
                                     Len(GlyfTriangle) + Len(GlyfLine) + Len(g)>>,
                          !.cmap = ("A" :> 3)] :
          g \in CompositeGlyphs}

NextGlyph ==
  \/ \E f \in GlyphFonts : Load(f)
  \/ \E k \in 1..Len(PathOpts) : PathFor("A", k)

SpecGlyph == Init /\ [][NextGlyph]_vars

CountOp(cmds, o) == Cardinality({k \in 1..Len(cmds) : cmds[k].op = o})

\* C1: the path pathFor returns for a decoded glyph is one closed subpath
\* per contour: it starts with M, ends with Z, an M follows every other Z
\* and nothing else does, and there are as many M commands as the decoded
\* glyph has contours.
C1_OneSubpathPerContour ==
  (result.op = "pathFor" /\ result.err = "none"
     /\ decodeGlyph(parser, getGlyphId(parser, result.char)).st = "glyph") =>
    LET glyph == decodeGlyph(parser, getGlyphId(parser, result.char)).glyph
        cmds == result.path
    IN  /\ CountOp(cmds, "M") = Len(glyph.contours)
        /\ CountOp(cmds, "Z") = Len(glyph.contours)
        /\ \A k \in 1..Len(cmds) :
             cmds[k].op = "M" <=> (k = 1 \/ cmds[k - 1].op = "Z")
        /\ cmds # <<>> => cmds[Len(cmds)].op = "Z"

\* the component records a composite glyph lists, read one after the other
\* from offset o of its data
RECURSIVE ComponentRecords(_, _)
ComponentRecords(buf, o) ==
  LET c == readComponent(buf, o)
  IN  IF ~c.ok THEN <<>>
      ELSE IF Bit(c.val.flags, 5) THEN <<c.val>> \o ComponentRecords(buf, c.off)
      ELSE <<c.val>>

\* glyph glyphId of the loaded font is a composite glyph
IsComposite(ft, glyphId) ==
  /\ glyphId < Len(ft.glyphOffsets) - 1
  /\ ft.glyphOffsets[glyphId + 1] # ft.glyphOffsets[glyphId + 2]
  /\ readInt16(ft.buffer, ft.glyfOffset + ft.glyphOffsets[glyphId + 1]).ok
  /\ readInt16(ft.buffer, ft.glyfOffset + ft.glyphOffsets[glyphId + 1]).val < 0

\* the contours of the components listed before record k
RECURSIVE ContoursBefore(_, _, _)
ContoursBefore(ft, recs, k) ==
  IF k <= 1 THEN 0
  ELSE ContoursBefore(ft, recs, k - 1)
       + Len(parseTrueTypeGlyph(ft, recs[k - 1].glyphIndex, 0, 1).glyph.contours)

\* C6: in the contours decoded for a composite glyph, the part that comes
\* from a component with the identity matrix and a zero offset is, point by
\* point and tag by tag, what decoding the component glyph directly gives.
C6_CompositeIdentity ==
  \A glyphId \in 0..(Len(parser.glyphOffsets) - 2) :
    (parser.fontType = "truetype" /\ IsComposite(ftOf(parser), glyphId)) =>
      LET ft == ftOf(parser)
          recs == ComponentRecords(ft.buffer,
                                   ft.glyfOffset + ft.glyphOffsets[glyphId + 1] + 10)
          out == parseTrueTypeGlyph(ft, glyphId, 0, 1)
      IN  \A k \in 1..Len(recs) :
            LET c == recs[k]
                direct == parseTrueTypeGlyph(ft, c.glyphIndex, 0, 1)
                from == ContoursBefore(ft, recs, k)
            IN  (c.glyphIndex # glyphId /\ direct.st = "glyph"
                   /\ <<c.m00, c.m01, c.m10, c.m11, c.dx, c.dy>> = <<1, 0, 0, 1, 0, 0>>)
                  => /\ out.st = "glyph"
                     /\ Len(out.glyph.contours) >= from + Len(direct.glyph.contours)
                     /\ SubSeq(out.glyph.contours, from + 1,
                               from + Len(direct.glyph.contours))
                          = direct.glyph.contours

(***************************************************************************)
(* CFF CharStrings: one font per choice of the local subroutines, the      *)
(* global subroutines and the CharString of glyph 1.                       *)
(***************************************************************************)
\* subroutine 0 calls itself; 0 and 1 call each other; a chain three deep;
\* a subroutine that only returns
LocalSubrChoices ==
  { << <<32, 10>>, <<144, 139, 5, 11>> >>,
    << <<33, 10, 11>>, <<32, 10, 11>> >>,
    << <<33, 10, 11>>, <<34, 10, 11>>, <<144, 139, 5, 11>> >>,
    << <<11>> >> }

GlobalSubrChoices == { <<>>, << <<32, 29>> >>, << <<11>> >> }

CharStringChoices ==
  { <<14>>, <<149, 149, 21, 32, 10, 14>>, <<149, 149, 21, 33, 10, 139, 144, 5, 14>>,
    <<32, 29, 14>>, <<149, 149, 21, 144, 139, 5, 14>> }

CharStringFonts ==
  {[Fonts.otf EXCEPT !.cff = [GoodCff EXCEPT !.localSubrs = l, !.globalSubrs = g,
                                             !.charStrings = << <<14>>, c >>],
                     !.cmap = ("A" :> 1)] :
     l \in LocalSubrChoices, g \in GlobalSubrChoices, c \in CharStringChoices}

NextCharString ==
  \/ \E f \in CharStringFonts : Load(f)
  \/ \E k \in 1..Len(PathOpts) : PathFor("A", k)

SpecCharString == Init /\ [][NextCharString]_vars

\* the pen state interpreting glyph glyphId leaves behind
Interpreted(p, glyphId) ==
  drawCFF(cffOf(p), p.cffCharStrings[glyphId + 1], 0, InitialPenState, 1)

\* C10: interpreting a glyph never runs the engine out of call stack: the
\* nesting of callsubr/callgsubr stops at the interpreter's own ceiling,
\* below the engine's, with a RecursionLimitExceeded failure.
C10_RecursionBounded ==
  parser.fontType = "cff" =>
    \A glyphId \in 0..(Len(parser.cffCharStrings) - 1) :
      /\ Interpreted(parser, glyphId).err \in {"none", "RecursionLimitExceeded"}
      /\ Interpreted(parser, glyphId).maxDepth < JSStackLimit

(***************************************************************************)
(* Table sets: one buffer per choice of the tables that follow head and    *)
(* cmap in the directory, loaded one after the other into one parser.      *)
(***************************************************************************)
OptionalTags == <<Tag.hhea, Tag.hmtx, Tag.maxp, Tag.glyf, Tag.loca, Tag.CFF>>

TableFonts ==
  {[BaseFont EXCEPT !.directory =
                      MkDirectory(<<Tag.head, Tag.cmap>>
                                  \o SelectSeq(OptionalTags, LAMBDA t : t \in present)),
                    !.cff = GoodCff] :
     present \in SUBSET {OptionalTags[k] : k \in 1..Len(OptionalTags)}}

NextTables ==
  \/ \E f \in TableFonts : Load(f)
  \/ \E g \in 0..3 : MetricsFor(g)

SpecTables == Init /\ [][NextTables]_vars

\* the directory read last has the tables one outline format needs
OutlinesLoadable(p) ==
  \/ hasTable(p, Tag.glyf) /\ hasTable(p, Tag.loca) /\ hasTable(p, Tag.maxp)
  \/ ~(hasTable(p, Tag.glyf) /\ hasTable(p, Tag.loca)) /\ hasTable(p, Tag.CFF)

\* C11: when the buffer loaded last has no hmtx or no hhea table, the load
\* succeeds all the same (its outline tables being there), and metricsFor
\* returns unitsPerEm with a zero bearing for every glyph index.
C11_MissingMetricsFallBack ==
  (parser.buffer # NoBuffer
     /\ (~hasTable(parser, Tag.hmtx) \/ ~hasTable(parser, Tag.hhea))) =>
    /\ (result.op = "fromBuffer" /\ OutlinesLoadable(parser)) => result.err = "none"
    /\ result.op = "metricsFor" =>
         result.metrics = [advanceWidth |-> parser.unitsPerEm * XDen,
                           leftSideBearing |-> 0]

\* C12: a load that gets past head and cmap takes the TrueType path when the
\* directory has both glyf and loca (CFF or not), else the CFF path when it
\* has CFF, else fails with UnsupportedFontType.
C12_FontTypeDetermined ==
  result.op = "fromBuffer" =>
    IF hasTable(parser, Tag.glyf) /\ hasTable(parser, Tag.loca)
    THEN /\ parser.fontType = "truetype"
         /\ result.err = (IF hasTable(parser, Tag.maxp) THEN "none" ELSE "MissingTable")
         /\ result.err = "none" => parser.glyphOffsets = parser.buffer.loca
    ELSE IF hasTable(parser, Tag.CFF)
    THEN /\ parser.fontType = "cff" /\ result.err = "none"
         /\ parser.cffCharStrings = parser.buffer.cff.charStrings
    ELSE result.err = "UnsupportedFontType"

\* a load of a buffer with glyf, loca and CFF together
C12_Witness ==
  /\ result.op = "fromBuffer" /\ result.err = "none"
  /\ hasTable(parser, Tag.glyf) /\ hasTable(parser, Tag.loca) /\ hasTable(parser, Tag.CFF)
  /\ parser.fontType = "truetype"

(***************************************************************************)
(* The binary cursor on its own: a parser holding a short buffer, and the  *)
(* cursor operations applied one after the other.  Here result is the last *)
(* cursor call [op, at, err, val, off]: at is this.offset before the call  *)
(* (the argument, for seek), off is this.offset after it.                  *)
(***************************************************************************)
MaxBufLen == 5

CursorBuffers == UNION {[1..n -> {1, 255}] : n \in 0..MaxBufLen}

InitCursor ==
  /\ \E b \in CursorBuffers : parser = [NewParser EXCEPT !.buffer = b]
  /\ result = [op |-> "new", at |-> 0, err |-> "none", val |-> 0, off |-> 0]
  /\ probe \in {<<"A", 1>>}
  /\ seen = NotSeen

\* a read: this.offset moves only when the read returns
CursorRead(name, r) ==
  /\ result' = [op |-> name, at |-> result.off, err |-> r.err, val |-> r.val,
                off |-> IF r.ok THEN r.off ELSE result.off]
  /\ UNCHANGED <<parser, probe, seen>>

ReadUint8 ==
  \E r \in {readUint8(parser.buffer, result.off)} : CursorRead("readUint8", r)

ReadInt8 ==
  \E r \in {readInt8(parser.buffer, result.off)} : CursorRead("readInt8", r)

ReadUint16 ==
  \E r \in {readUint16(parser.buffer, result.off)} : CursorRead("readUint16", r)

ReadInt16 ==
  \E r \in {readInt16(parser.buffer, result.off)} : CursorRead("readInt16", r)

\* an unsigned value of 2^31 or more is past the integers of the checker:
\* the read is left out where the first of its four bytes has its top bit set
ReadUint32 ==
  /\ (result.off + 3 < Len(parser.buffer)) => parser.buffer[result.off + 1] < 128
  /\ CursorRead("readUint32", readUint32(parser.buffer, result.off))

ReadInt32 ==
  \E r \in {readInt32(parser.buffer, result.off)} : CursorRead("readInt32", r)

Seek(o) ==
  \E r \in {seek(parser.buffer, o)} :
    /\ result' = [op |-> "seek", at |-> o, err |-> r.err, val |-> 0,
                  off |-> IF r.ok THEN r.off ELSE result.off]
    /\ UNCHANGED <<parser, probe, seen>>

\* this.offset += 6, the unchecked skip of _parseFont
Skip ==
  /\ result.off <= Len(parser.buffer)
  /\ result' = [op |-> "skip", at |-> result.off, err |-> "none", val |-> 0,
                off |-> result.off + 6]
  /\ UNCHANGED <<parser, probe, seen>>

NextCursor ==
  \/ ReadUint8 \/ ReadInt8 \/ ReadUint16 \/ ReadInt16 \/ ReadUint32 \/ ReadInt32
  \/ \E o \in (0 - 1)..(MaxBufLen + 1) : Seek(o)
  \/ Skip

SpecCursor == InitCursor /\ [][NextCursor]_vars

\* the bytes a read takes: 1, 2 or 4
ReadWidth ==
  [readUint8 |-> 1, readInt8 |-> 1, readUint16 |-> 2, readInt16 |-> 2,
   readUint32 |-> 4, readInt32 |-> 4]

\* the big-endian unsigned value of the n bytes of buf from offset o on
RECURSIVE BigEndian(_, _, _)
BigEndian(buf, o, n) ==
  IF n = 0 THEN 0 ELSE BigEndian(buf, o, n - 1) * 256 + buf[o + n]

\* the two's-complement value of the same bytes
SignedBigEndian(buf, o, n) ==
  (IF buf[o + 1] >= 128 THEN buf[o + 1] - 256 ELSE buf[o + 1]) * 2 ^ (8 * (n - 1))
  + BigEndian(buf, o + 1, n - 1)

\* C13: a read of n bytes at offset o fails with UnexpectedEnd when o + n is
\* past the buffer length and otherwise returns the big-endian value of
\* those n bytes and moves the offset by n; seek(o) fails with OutOfRange
\* when o < 0 or o >= length and otherwise sets the offset to o.
C13_CursorBoundsChecked ==
  LET buf == parser.buffer
      o == result.at
  IN  /\ result.op \in DOMAIN ReadWidth =>
           LET n == ReadWidth[result.op]
           IN  IF o + n > Len(buf)
               THEN result.err = "UnexpectedEnd" /\ result.off = o
               ELSE /\ result.err = "none" /\ result.off = o + n
                    /\ result.val =
                         IF result.op \in {"readInt8", "readInt16", "readInt32"}
                         THEN SignedBigEndian(buf, o, n)
                         ELSE BigEndian(buf, o, n)
      /\ result.op = "seek" =>
           IF o < 0 \/ o >= Len(buf)
           THEN result.err = "OutOfRange"
           ELSE result.err = "none" /\ result.off = o

\* a signed two-byte read of the last two bytes of the buffer, negative, and
\* a read refused past the end
C13_Witness ==
  /\ result.op = "readInt16" /\ result.err = "none"
  /\ result.off = Len(parser.buffer) /\ result.val < 0

(***************************************************************************)
(* Character maps: variable fonts that differ in their cmap, one of them   *)
(* in a format the parser refuses, with queries for mapped and unmapped    *)
(* characters between renders, metrics queries and axis settings.          *)
(***************************************************************************)
CmapChoices ==
  {("A" :> 1), ("A" :> 2) @@ ("B" :> 1), ("A" :> 0) @@ ("B" :> 2)}

CmapFonts ==
  {[Fonts.var EXCEPT !.cmap = m] : m \in CmapChoices}
  \cup {[Fonts.var EXCEPT !.cmapFormat = 6]}

NextCmap ==
  \/ \E f \in CmapFonts : Load(f)
  \/ \E av \in {("wght" :> 1000), ("wdth" :> 250)} : SetAxisValues(av)
  \/ \E c \in {"A", "B", "Z"} : GlyphIndexFor(c)
  \/ \E g \in 0..1 : MetricsFor(g)
  \/ \E c \in {"A", "B"} : PathFor(c, 1)
  \/ \E t \in {<<"A", "B">>} : LayoutText(t, [size |-> 1000, kerning |-> 0,
                                               variable |-> ("wght" :> 150)])

SpecCmap == Init /\ [][NextCmap]_vars

\* C14: a successful load leaves the character map of the buffer in place,
\* nothing but a load changes it, and glyphIndexFor returns the index the
\* map holds for the code point, 0 when it holds none: the answer for one
\* code point is the same whatever was rendered, measured or set between.
C14_GlyphIndexStable ==
  [][/\ (result'.op = "fromBuffer" /\ result'.err = "none")
          => parser'.charToGlyph = parser'.buffer.cmap
     /\ result'.op # "fromBuffer" => parser'.charToGlyph = parser.charToGlyph
     /\ result'.op = "glyphIndexFor"
          => result'.glyphId =
               IF result'.char \in DOMAIN parser.charToGlyph
               THEN parser.charToGlyph[result'.char] ELSE 0]_vars

\* an unmapped character queried after a render at changed axis values
C14_Witness ==
  /\ result.op = "glyphIndexFor" /\ result.char = "Z" /\ result.glyphId = 0
  /\ parser.charToGlyph = ("A" :> 2) @@ ("B" :> 1)
  /\ parser.glyphCache # EmptyMap
  /\ parser.currentAxisValues["wght"] = 900

(***************************************************************************)
(* Text layout: a static and a variable font, texts with spaces and with a *)
(* character the font does not map (it gets glyph 0, which has no          *)
(* outline), sizes and kernings.                                           *)
(***************************************************************************)
LayoutFonts == {Fonts.ttf, Fonts.var}

LayoutTexts == {<<"A", " ", "B">>, <<"A", "Z", "B">>, <<"B", "A">>, <<" ">>}

PenOpts ==
  {[size |-> 1000, kerning |-> 0, variable |-> EmptyMap],
   [size |-> 2000, kerning |-> 1, variable |-> EmptyMap],
   [size |-> 1000, kerning |-> 0 - 1, variable |-> EmptyMap],
   [size |-> 2000, kerning |-> 0, variable |-> ("wdth" :> 200)]}

NextLayout ==
  \/ \E f \in LayoutFonts : Load(f)
  \/ \E t \in LayoutTexts, o \in PenOpts : LayoutText(t, o)

SpecLayout == Init /\ [][NextLayout]_vars

\* the pen before character k of text (k = Len(text) + 1: after the text):
\* 0.3*size for a space, (advanceWidth*scale)*(1 + kerning) for any other
\* character, with scale = size/unitsPerEm
RECURSIVE PenBefore(_, _, _, _)
PenBefore(p, text, k, opts) ==
  IF k <= 1 THEN 0
  ELSE LET c == text[k - 1]
           advance == 2 * getGlyphMetrics(p, getGlyphId(p, c)).advanceWidth
                        * (opts.size \div p.unitsPerEm)
       IN  PenBefore(p, text, k - 1, opts)
           + (IF c = " " THEN ((opts.size * 3) \div 10) * XUnit
              ELSE advance + opts.kerning * advance)

\* the positions of the characters of text that are no space, in order
NonSpaces(text) ==
  SelectSeq([i \in 1..Len(text) |-> i], LAMBDA i : text[i] # " ")

\* C15: layoutText emits every character that is no space, in text order,
\* at the pen position the characters before it add up to (0.3*size for a
\* space, (advanceWidth*scale)*(1 + kerning) for any other character), and
\* the returned width is the pen position after the last character.
C15_PenAdvance ==
  [][\A t \in LayoutTexts, o \in PenOpts :
       (LayoutText(t, o) /\ result'.err = "none") =>
         LET out == result'.layout.characters
             at == NonSpaces(t)
         IN  /\ Len(out) = Len(at)
             /\ \A j \in 1..Len(at) :
                  j <= Len(out) =>
                    /\ out[j].char = t[at[j]]
                    /\ out[j].x = PenBefore(parser', t, at[j], o)
             /\ result'.layout.width = PenBefore(parser', t, Len(t) + 1, o)]_vars

(***************************************************************************)
(* Subroutine tables: CFF fonts whose local and global subroutine INDEXes  *)
(* have 2 or ManySubrs entries, one without a Private DICT (its Top DICT   *)
(* names none, as in a CID-keyed font) and one whose Private DICT names no *)
(* Subrs.  Subroutine k leaves a number of its own on the stack.           *)
(***************************************************************************)
ManySubrs == 1240

SubrTable(n) == [k \in 1..n |-> <<32 + (k % 200), 11>>]

SubrFonts ==
  {[Fonts.otf EXCEPT !.cff = [GoodCff EXCEPT !.localSubrs = SubrTable(2),
                                             !.globalSubrs = <<>>]],
   [Fonts.otf EXCEPT !.cff = [GoodCff EXCEPT !.localSubrs = SubrTable(ManySubrs),
                                             !.globalSubrs = SubrTable(2)]],
   [Fonts.otf EXCEPT !.cff = [GoodCff EXCEPT !.hasPrivate = FALSE, !.hasSubrs = FALSE,
                                             !.localSubrs = <<>>,
                                             !.globalSubrs = SubrTable(ManySubrs)]],
   [Fonts.otf EXCEPT !.cff = [GoodCff EXCEPT !.hasSubrs = FALSE, !.localSubrs = <<>>,
                                             !.globalSubrs = SubrTable(2)]]}

NextSubrs ==
  \/ \E f \in SubrFonts : Load(f)
  \/ \E c \in Chars : GlyphIndexFor(c)
  \/ \E g \in 0..3 : MetricsFor(g)
  \/ \E c \in {"A", "B"} : PathFor(c, 1)

SpecSubrs == Init /\ [][NextSubrs]_vars

\* the CharString bytes of an operand between -1131 and 1131
OperandBytes(v) ==
  IF v >= 0 - 107 /\ v <= 107 THEN <<v + 139>>
  ELSE IF v > 107 THEN <<247 + (v - 108) \div 256, (v - 108) % 256>>
  ELSE <<251 + (0 - v - 108) \div 256, (0 - v - 108) % 256>>

CallOperands == {0 - 1131, 0 - 1130, 0 - 108, 0 - 107, 0 - 106, 0, 108}

\* the subroutine INDEX of a loaded CFF buffer that operator op calls into
SubrIndexOf(f, op) ==
  IF op = 29 THEN f.cff.globalSubrs
  ELSE IF f.cff.hasPrivate /\ f.cff.hasSubrs THEN f.cff.localSubrs ELSE <<>>

\* what a pen state shows of the subroutine that ran
Shown(s) == <<s.stack, s.x, s.y, s.nStems, s.haveWidth, s.width, s.open, s.path, s.err>>

\* C16: callsubr and callgsubr execute entry (operand + bias) of the local,
\* respectively global, subroutine INDEX of the loaded font, bias being
\* 107, 1131 or 32768 by the entry count of that INDEX alone; an index
\* outside the INDEX executes nothing.
C16_SubrBias ==
  (parser.fontType = "cff" /\ parser.buffer # NoBuffer /\ hasTable(parser, Tag.CFF)) =>
    \A op \in {10, 29}, v \in CallOperands :
      LET index == SubrIndexOf(parser.buffer, op)
          k == v + subrBias(Len(index))
          called == drawCFF(cffOf(parser), OperandBytes(v) \o <<op>>, 0,
                            InitialPenState, 1)
      IN  Shown(called) =
            IF k >= 0 /\ k < Len(index)
            THEN Shown(drawCFF(cffOf(parser), index[k + 1], 0, InitialPenState, 2))
            ELSE Shown(InitialPenState)

(***************************************************************************)
(* Operand decoding on its own: every form of operand, decoded as DICT     *)
(* data, as CharString data, and pushed by the interpreter.  Here result   *)
(* is the last call [op, data, value, den, nextIndex, stack].  Operator 29 *)
(* is a DICT form only and 255 a CharString form only; the interpreter is  *)
(* run on the whole-number forms.                                          *)
(***************************************************************************)
OperandByteValues == {0, 1, 128, 255}

OperandData ==
  {<<b0>> : b0 \in {32, 139, 246}}
  \cup {<<b0, b1>> : b0 \in {247, 250, 251, 254}, b1 \in OperandByteValues}
  \cup {<<28, b1, b2>> : b1 \in OperandByteValues, b2 \in OperandByteValues}
  \cup {<<b0, b1, b2, b3, b4>> :
          b0 \in {29, 255}, b1 \in OperandByteValues, b2 \in OperandByteValues,
          b3 \in {0, 255}, b4 \in {0, 255}}

NoCall ==
  [op |-> "new", data |-> <<>>, value |-> 0, den |-> 1, nextIndex |-> 0, stack |-> <<>>]

InitOperand ==
  /\ parser = NewParser
  /\ result = NoCall
  /\ probe \in {<<"A", 1>>}
  /\ seen = NotSeen

ReadDictOperand(data) ==
  \E r \in {readDictOperand(data, 0)} :
    /\ data[1] # 255
    /\ result' = [NoCall EXCEPT !.op = "readDictOperand", !.data = data,
                                !.value = r.value, !.den = r.den,
                                !.nextIndex = r.nextIndex]
    /\ UNCHANGED <<parser, probe, seen>>

ReadCharStringOperand(data) ==
  \E r \in {readCharStringOperand(data, 0)} :
    /\ data[1] # 29
    /\ result' = [NoCall EXCEPT !.op = "readCharStringOperand", !.data = data,
                                !.value = r.value, !.den = r.den,
                                !.nextIndex = r.nextIndex]
    /\ UNCHANGED <<parser, probe, seen>>

\* the interpreter run on the bytes of one operand
DrawOperand(data) ==
  \E s \in {drawCFF(cffOf(parser), data, 0, InitialPenState, 1)} :
    /\ data[1] \notin {29, 255}
    /\ result' = [NoCall EXCEPT !.op = "drawCFF", !.data = data, !.stack = s.stack]
    /\ UNCHANGED <<parser, probe, seen>>

NextOperand ==
  \/ \E data \in OperandData : ReadDictOperand(data)
  \/ \E data \in OperandData : ReadCharStringOperand(data)
  \/ \E data \in OperandData : DrawOperand(data)

SpecOperand == InitOperand /\ [][NextOperand]_vars

\* the operand the stated table gives for the bytes, over the denominator
\* 65536 for the fixed-point form
TableOperand(data) ==
  LET b0 == data[1]
  IN  IF b0 >= 32 /\ b0 <= 246 THEN <<b0 - 139, 1>>
      ELSE IF b0 >= 247 /\ b0 <= 250 THEN <<(b0 - 247) * 256 + data[2] + 108, 1>>
      ELSE IF b0 >= 251 /\ b0 <= 254 THEN <<0 - (b0 - 251) * 256 - data[2] - 108, 1>>
      ELSE IF b0 = 28 THEN <<SignedBigEndian(data, 1, 2), 1>>
      ELSE IF b0 = 29 THEN <<SignedBigEndian(data, 1, 4), 1>>
      ELSE <<SignedBigEndian(data, 1, 4), 65536>>

\* C17: operands decode by the stated table in DICT data and in CharStrings
\* alike, all the bytes of the operand being consumed: b0 - 139; the two
\* two-byte forms; 28 as the signed 16-bit value of the next two bytes,
\* pushed as one operand; DICT 29 as the signed 32-bit value; CharString
\* 255 as the signed 32-bit value over 65536.
C17_OperandTable ==
  /\ result.op \in {"readDictOperand", "readCharStringOperand"} =>
       /\ <<result.value, result.den>> = TableOperand(result.data)
       /\ result.nextIndex = Len(result.data)
  /\ result.op = "drawCFF" => result.stack = <<TableOperand(result.data)[1]>>

(***************************************************************************)
(* rmoveto: one font per CharString of one to three single-byte operands   *)
(* followed by rmoveto, as glyph 1.                                        *)
(***************************************************************************)
MovetoOperandBytes == {100, 139, 149}

MovetoStrings ==
  UNION {{ops \o <<21>> : ops \in [1..n -> MovetoOperandBytes]} : n \in 1..3}

MovetoFonts ==
  {[Fonts.otf EXCEPT !.cff = [GoodCff EXCEPT !.charStrings = << <<14>>, c >>],
                     !.cmap = ("A" :> 1)] : c \in MovetoStrings}

NextMoveto ==
  \/ \E f \in MovetoFonts : Load(f)
  \/ \E k \in 1..Len(PathOpts) : PathFor("A", k)

SpecMoveto == Init /\ [][NextMoveto]_vars

\* C18: a CharString of operand pushes and one rmoveto, interpreted from the
\* initial pen state, emits exactly one command: a moveto to the pen moved
\* from (0,0) by the two deltas, both coordinates being numbers.
C18_RmovetoEmitsOneMoveto ==
  (parser.fontType = "cff" /\ Len(parser.cffCharStrings) = 2) =>
    LET cs == parser.cffCharStrings[2]
        n == Len(cs) - 1
        s == Interpreted(parser, 1)
    IN  /\ Len(s.path) = 1
        /\ s.path[1].type = "moveto"
        /\ s.path[1].x # NaN /\ s.path[1].y # NaN
        /\ n >= 2 => (s.path[1].x = cs[n - 1] - 139 /\ s.path[1].y = cs[n] - 139)
        /\ s.x = s.path[1].x /\ s.y = s.path[1].y

(***************************************************************************)
(* Composite glyphs and the cursor (over the TrueType outline fonts).      *)
(***************************************************************************)
\* the transformed contours of the glyphs records 1..k reference, in order
RECURSIVE ComponentContours(_, _, _)
ComponentContours(ft, recs, k) ==
  IF k = 0 THEN <<>>
  ELSE ComponentContours(ft, recs, k - 1)
       \o transformContours(parseTrueTypeGlyph(ft, recs[k].glyphIndex, 0, 1).glyph.contours,
                            recs[k].m00, recs[k].m01, recs[k].m10, recs[k].m11,
                            recs[k].dx, recs[k].dy)

\* C19: the component records of a composite glyph are read one after the
\* other from the composite's own data, whatever decoding a component does
\* to the cursor: the composite's contours are the transformed contours of
\* the glyphs its records reference, in record order.
C19_ComponentsReadInSequence ==
  \A glyphId \in 0..(Len(parser.glyphOffsets) - 2) :
    (parser.fontType = "truetype" /\ IsComposite(ftOf(parser), glyphId)) =>
      LET ft == ftOf(parser)
          recs == ComponentRecords(ft.buffer,
                                   ft.glyfOffset + ft.glyphOffsets[glyphId + 1] + 10)
          out == parseTrueTypeGlyph(ft, glyphId, 0, 1)
      IN  (\A k \in 1..Len(recs) :
             /\ recs[k].glyphIndex # glyphId
             /\ parseTrueTypeGlyph(ft, recs[k].glyphIndex, 0, 1).st = "glyph")
            => /\ out.st = "glyph"
               /\ out.glyph.contours = ComponentContours(ft, recs, Len(recs))

(***************************************************************************)
(* Subroutine calls: one font per choice of the local subroutines, the     *)
(* global subroutines and the CharString of glyph 1; no call chain is      *)
(* deeper than the engine's call stack.                                    *)
(***************************************************************************)
\* a line, ending without return; a call of it, a line, return and bytes
\* after the return; a call of that one | an operand left for the caller; a
\* moveto taking the width, and a line
InlineLocalSubrs ==
  { << <<144, 139, 5>>, <<32, 10, 139, 144, 5, 11, 144, 144, 5>>, <<33, 10, 11>> >>,
    << <<149, 11>>, <<21, 144, 139, 5, 11>>, <<11>> >> }

\* a diagonal line | a call of local subroutine 0, and a diagonal line
InlineGlobalSubrs ==
  { << <<144, 144, 5, 11>> >>, << <<32, 10, 144, 144, 5>> >> }

InlineCharStrings ==
  { <<149, 149, 21, 34, 10, 14>>,
    <<149, 149, 21, 32, 29, 139, 144, 5, 14>>,
    <<149, 149, 21, 32, 10, 33, 10, 14>>,
    <<160, 149, 149, 33, 10, 139, 144, 5, 14>>,
    <<149, 149, 21, 32, 10, 139, 5, 14>>,
    <<149, 149, 21, 144, 139, 5, 11, 144, 144, 5, 14>> }

InlineFonts ==
  {[Fonts.otf EXCEPT !.cff = [GoodCff EXCEPT !.localSubrs = l, !.globalSubrs = g,
                                             !.charStrings = << <<14>>, c >>],
                     !.cmap = ("A" :> 1)] :
     l \in InlineLocalSubrs, g \in InlineGlobalSubrs, c \in InlineCharStrings}

NextInline ==
  \/ \E f \in InlineFonts : Load(f)
  \/ \E k \in 1..Len(PathOpts) : PathFor("A", k)

SpecInline == Init /\ [][NextInline]_vars

\* the bytes of charString from byte i up to its return or its end, every
\* operand followed by callsubr/callgsubr that names a subroutine replaced by
\* that subroutine's bytes, inlined the same way
RECURSIVE Inlined(_, _, _, _)
Inlined(cff, charString, i, depth) ==
  IF i >= Len(charString) THEN <<>>
  ELSE
  LET b == charString[i + 1]
      upTo(n) == SubSeq(charString, i + 1, IF n > Len(charString) THEN Len(charString) ELSE n)
  IN  IF b >= 32
      THEN LET operand == readCharStringOperand(charString, i)
               n == operand.nextIndex
               op == IF n < Len(charString) THEN charString[n + 1] ELSE 0
               adjustedIndex == IF operand.value = NaN THEN NaN
                                ELSE Add(operand.value \div operand.den, biasOf(cff, op))
           IN  IF /\ op \in {10, 29}
                  /\ depth < JSStackLimit
                  /\ adjustedIndex # NaN /\ adjustedIndex >= 0
                  /\ adjustedIndex < Len(subrsOf(cff, op))
               THEN Inlined(cff, subrsOf(cff, op)[adjustedIndex + 1], 0, depth + 1)
                    \o Inlined(cff, charString, n + 1, depth)
               ELSE upTo(n) \o Inlined(cff, charString, n, depth)
      ELSE IF b = 11 THEN <<>>
      ELSE IF b = 12 THEN upTo(i + 2) \o Inlined(cff, charString, i + 2, depth)
      ELSE <<b>> \o Inlined(cff, charString, i + 1, depth)

HasCall(charString) == \E k \in 1..Len(charString) : charString[k] \in {10, 29}

\* C20: subroutine calls share one pen state: interpreting a CharString with
\* callsubr/callgsubr leaves the same operand stack, x, y, stem count, width,
\* width-consumed flag, open flag and command list as interpreting the
\* CharString with every called subroutine's bytes (up to its return or its
\* end) inlined at the call site, however the calls nest.
C20_CallsAreInlining ==
  parser.fontType = "cff" =>
    \A glyphId \in 0..(Len(parser.cffCharStrings) - 1) :
      LET same(called, flat) ==
            /\ called.err = "none"
            /\ ~HasCall(flat)
            /\ Shown(called) = Shown(drawCFF(cffOf(parser), flat, 0, InitialPenState, 1))
      IN  same(Interpreted(parser, glyphId),
               Inlined(cffOf(parser), parser.cffCharStrings[glyphId + 1], 0, 1))

\* a glyph whose CharString calls three subroutines deep has been drawn, the
\* innermost subroutine's line and the caller's closepath in its path
C20_Witness ==
  /\ parser.fontType = "cff"
  /\ result.op = "pathFor" /\ result.err = "none"
  /\ Len(parser.cffCharStrings) = 2
  /\ HasCall(parser.cffCharStrings[2])
  /\ LET drawn(s) == /\ s.maxDepth >= 4
                     /\ Len(s.path) >= 4
                     /\ s.path[2].type = "lineto"
                     /\ s.x # s.path[1].x
     IN  drawn(Interpreted(parser, 1))

(***************************************************************************)
(* Reloading: variable, static, and CFF buffers with and without a         *)
(* Private DICT and CharStrings, loaded one after the other into one       *)
(* parser; every one of them loads.                                        *)
(***************************************************************************)
ReloadFonts ==
  {Fonts.var, Fonts.var150, Fonts.ttf, Fonts.otf,
   [Fonts.otf EXCEPT !.cff = [GoodCff EXCEPT !.hasPrivate = FALSE, !.hasSubrs = FALSE,
                                             !.localSubrs = <<>>,
                                             !.charStrings = << <<14>>, <<32, 10, 14>> >>]],
   [Fonts.otf EXCEPT !.cff = [GoodCff EXCEPT !.hasCharStrings = FALSE,
                                             !.charStrings = <<>>]]}

\* return this.variationAxes ? [...this.variationAxes] : []
getAxes(p) == p.variationAxes

\* return { ...this.currentAxisValues }
getVariation(p) == p.currentAxisValues

\* axes()
Axes ==
  /\ result' = [op |-> "getAxes", err |-> "none", axes |-> getAxes(parser)]
  /\ UNCHANGED <<parser, probe, seen>>

\* currentAxisValues()
CurrentAxisValues ==
  /\ result' = [op |-> "getVariation", err |-> "none",
                axisValues |-> getVariation(parser)]
  /\ UNCHANGED <<parser, probe, seen>>

NextReload ==
  \/ \E f \in ReloadFonts : Load(f)
  \/ \E av \in {("wght" :> 1000), ("wdth" :> 250)} : SetAxisValues(av)
  \/ Axes
  \/ CurrentAxisValues
  \/ \E c \in {"A", "B"} : PathFor(c, 1)

SpecReload == Init /\ [][NextReload]_vars

\* what the loaded buffer alone gives the CFF decoder
BufferCff(f) ==
  [cffCharStrings |-> IF f.cff.hasCharStrings THEN f.cff.charStrings ELSE <<>>,
   cffLocalSubrs |-> IF f.cff.hasPrivate /\ f.cff.hasSubrs THEN f.cff.localSubrs
                     ELSE <<>>,
   cffGlobalSubrs |-> f.cff.globalSubrs,
   cffLocalBias |-> IF f.cff.hasPrivate /\ f.cff.hasSubrs
                    THEN subrBias(Len(f.cff.localSubrs)) ELSE 107,
   cffGlobalBias |-> subrBias(Len(f.cff.globalSubrs))]

\* C21: after successful loads into one parser, axes(), currentAxisValues()
\* and the CFF data glyph decoding uses come from the most recently loaded
\* buffer alone: a buffer without fvar has no axes and no axis values, and a
\* CFF buffer's glyphs decode as they do in a parser that loaded nothing else.
C21_OnlyLatestBuffer ==
  /\ result.op = "getAxes" =>
       result.axes = (IF hasTable(parser, Tag.fvar) THEN parser.buffer.axes ELSE <<>>)
  /\ (result.op = "getVariation" /\ ~hasTable(parser, Tag.fvar)) =>
       result.axisValues = EmptyMap
  /\ (parser.buffer # NoBuffer /\ parser.fontType = "cff") =>
       \A glyphId \in 0..2 :
         parseCFFGlyph(cffOf(parser), glyphId)
           = parseCFFGlyph(BufferCff(parser.buffer), glyphId)

(***************************************************************************)
(* endchar: CharStrings that end with endchar, that go on after it, and    *)
(* that call a subroutine holding it.                                      *)
(***************************************************************************)
\* subroutine 0: a line and endchar | a line and return | endchar alone
EndcharLocalSubrs ==
  { << <<144, 139, 5, 14>> >>, << <<144, 139, 5, 11>> >>, << <<14>> >> }

EndcharCharStrings ==
  { <<149, 149, 21, 144, 139, 5, 14>>,
    <<149, 149, 21, 144, 139, 5, 14, 139, 144, 5>>,
    <<149, 149, 21, 32, 10, 139, 144, 5, 14>>,
    <<149, 149, 21, 14, 149, 149, 21, 144, 139, 5, 14>>,
    <<149, 149, 21, 32, 10>> }

EndcharFonts ==
  {[Fonts.otf EXCEPT !.cff = [GoodCff EXCEPT !.localSubrs = l,
                                             !.charStrings = << <<14>>, c >>],
                     !.cmap = ("A" :> 1)] :
     l \in EndcharLocalSubrs, c \in EndcharCharStrings}

NextEndchar ==
  \/ \E f \in EndcharFonts : Load(f)
  \/ \E k \in 1..Len(PathOpts) : PathFor("A", k)
  \/ BoundsFor("A", 1)

SpecEndchar == Init /\ [][NextEndchar]_vars

\* the bytes of a CharString without calls up to and with its first endchar
RECURSIVE UpToEndchar(_, _)
UpToEndchar(charString, i) ==
  IF i >= Len(charString) THEN charString
  ELSE LET b == charString[i + 1]
       IN  IF b >= 32
           THEN UpToEndchar(charString, readCharStringOperand(charString, i).nextIndex)
           ELSE IF b = 14 THEN SubSeq(charString, 1, i + 1)
           ELSE IF b = 12 THEN UpToEndchar(charString, i + 2)
           ELSE UpToEndchar(charString, i + 1)

\* C22: endchar ends the glyph program: whatever follows the first endchar
\* executed, in its CharString or in a calling one, is not interpreted and
\* appends no command, so a glyph's commands are those drawn up to endchar
\* and end with the closepath endchar emits for an open path.
C22_EndcharEnds ==
  parser.fontType = "cff" =>
    \A glyphId \in 0..(Len(parser.cffCharStrings) - 1) :
      LET ends(drawn, flat) ==
            LET cut == UpToEndchar(flat, 0)
            IN  /\ drawn.path = drawCFF(cffOf(parser), cut, 0, InitialPenState, 1).path
                /\ (Len(cut) > 0 /\ Last(cut) = 14 /\ drawn.path # <<>>)
                     => Last(drawn.path) = ClosePath
      IN  ends(Interpreted(parser, glyphId),
               Inlined(cffOf(parser), parser.cffCharStrings[glyphId + 1], 0, 1))

(***************************************************************************)
(* Command order: CharStrings with several movetos of the three kinds, in  *)
(* the glyph's own bytes and in subroutines, with endchar before the end.  *)
(***************************************************************************)
OrderLocalSubrs ==
  { << <<149, 22, 144, 139, 5, 11>>, <<149, 4, 11>> >>,
    << <<144, 139, 5, 14>>, <<32, 10, 149, 22>> >>,
    << <<149, 149, 21>>, <<14, 11>> >> }

OrderCharStrings ==
  { <<149, 149, 21, 144, 139, 5, 149, 22, 144, 139, 5, 149, 4, 14>>,
    <<149, 149, 21, 32, 10, 149, 149, 21, 14>>,
    <<144, 139, 5, 149, 149, 21, 14, 149, 4>>,
    <<32, 10, 33, 10, 14>>,
    <<149, 149, 21, 33, 10, 149, 22, 14>> }

OrderFonts ==
  {[Fonts.otf EXCEPT !.cff = [GoodCff EXCEPT !.localSubrs = l,
                                             !.charStrings = << <<14>>, c >>],
                     !.cmap = ("A" :> 1)] :
     l \in OrderLocalSubrs, c \in OrderCharStrings}

NextOrder ==
  \/ \E f \in OrderFonts : Load(f)
  \/ \E k \in 1..Len(PathOpts) : PathFor("A", k)
  \/ BoundsFor("A", 1)

SpecOrder == Init /\ [][NextOrder]_vars

Movetos(cmds) == {k \in 1..Len(cmds) : cmds[k].type = "moveto"}

\* C23: in the commands drawn for a CharString no closepath comes before the
\* first moveto, and every later moveto comes right after a closepath: a
\* moveto closes the open path before it starts a new one.
C23_MovetoOrder ==
  parser.fontType = "cff" =>
    \A glyphId \in 0..(Len(parser.cffCharStrings) - 1) :
      LET ordered(cmds) ==
            \A k \in Movetos(cmds) :
              IF \A j \in Movetos(cmds) : k <= j
              THEN \A j \in 1..(k - 1) : cmds[j] # ClosePath
              ELSE cmds[k - 1] = ClosePath
      IN  ordered(Interpreted(parser, glyphId).path)

\* a glyph with three movetos, one of them drawn by a subroutine, has been
\* rendered
C23_Witness ==
  /\ parser.fontType = "cff"
  /\ result.op = "pathFor" /\ result.err = "none" /\ result.path # <<>>
  /\ Len(parser.cffCharStrings) = 2
  /\ LET drawn(s) == /\ s.err = "none"
                     /\ s.maxDepth >= 2
                     /\ Cardinality(Movetos(s.path)) >= 3
                     /\ \E k \in Movetos(s.path) : k > 1 /\ s.path[k - 1] = ClosePath
     IN  drawn(Interpreted(parser, 1))

(***************************************************************************)
(* Simple glyphs from their description: up to MaxPoints points, each with *)
(* an x and a y delta in one of the three encodings, partitioned by        *)
(* non-decreasing end-point indices into one to three contours.            *)
(***************************************************************************)
MaxPoints == 3

ShortDelta(d) == [kind |-> "short", d |-> d]

SameDelta == [kind |-> "same", d |-> 0]

WordDelta(d) == [kind |-> "word", d |-> d]

PointChoices ==
  {[dx |-> ShortDelta(10), dy |-> SameDelta, on |-> 1],
   [dx |-> WordDelta(0 - 300), dy |-> ShortDelta(0 - 3), on |-> 0],
   [dx |-> SameDelta, dy |-> WordDelta(260), on |-> 1],
   [dx |-> ShortDelta(0 - 3), dy |-> WordDelta(0 - 300), on |-> 0]}

\* non-decreasing end-point indices of one to three contours over np points
EndPtChoices(np) ==
  {<<np - 1>>}
  \cup {<<e, np - 1>> : e \in 0..(np - 1)}
  \cup {<<e, f, np - 1>> : e \in {0}, f \in 0..(np - 1)}

\* packed: the flags of equal points as one flag with REPEAT and a count,
\* after two instruction bytes
SimpleDescriptions ==
  UNION {[points : [1..np -> PointChoices], endPts : EndPtChoices(np),
          packed : {FALSE}] : np \in 1..MaxPoints}
  \cup UNION {[points : {[j \in 1..np |-> pc] : pc \in PointChoices},
               endPts : EndPtChoices(np), packed : {TRUE}] : np \in 2..MaxPoints}

\* ON_CURVE 1, X_SHORT 2, Y_SHORT 4, REPEAT 8, X_SAME/positive 16, Y_SAME/positive 32
FlagOf(pt) ==
  pt.on
  + (IF pt.dx.kind = "short" THEN 2 ELSE 0)
  + (IF pt.dy.kind = "short" THEN 4 ELSE 0)
  + (IF pt.dx.kind = "same" \/ (pt.dx.kind = "short" /\ pt.dx.d >= 0) THEN 16 ELSE 0)
  + (IF pt.dy.kind = "same" \/ (pt.dy.kind = "short" /\ pt.dy.d >= 0) THEN 32 ELSE 0)

DeltaBytes(delta) ==
  IF delta.kind = "same" THEN <<>>
  ELSE IF delta.kind = "short" THEN <<IF delta.d >= 0 THEN delta.d ELSE 0 - delta.d>>
  ELSE <<((delta.d + 65536) % 65536) \div 256, (delta.d + 65536) % 256>>

DescribedGlyphBytes(g) ==
  <<0, Len(g.endPts), 0, 0, 0, 0, 0, 10, 0, 10>>
  \o Flatten([k \in 1..Len(g.endPts) |-> <<0, g.endPts[k]>>])
  \o (IF g.packed THEN <<0, 2, 77, 78, FlagOf(g.points[1]) + 8, Len(g.points) - 1>>
      ELSE <<0, 0>> \o [j \in 1..Len(g.points) |-> FlagOf(g.points[j])])
  \o Flatten([j \in 1..Len(g.points) |-> DeltaBytes(g.points[j].dx)])
  \o Flatten([j \in 1..Len(g.points) |-> DeltaBytes(g.points[j].dy)])

NoDecode(g) == [op |-> "new", desc |-> g, ret |-> GlyphNull(0)]

InitSimple ==
  /\ parser = NewParser
  /\ result \in {NoDecode(g) : g \in SimpleDescriptions}
  /\ probe \in {<<"A", 1>>}
  /\ seen = NotSeen

\* glyph 1 of a glyf table holding the described glyph alone
ParseSimpleGlyph ==
  \E bytes \in {DescribedGlyphBytes(result.desc)} :
    /\ result.op = "new"
    /\ result' = [op |-> "parseSimpleGlyph", desc |-> result.desc,
                  ret |-> parseTrueTypeGlyph([buffer |-> bytes, hasGlyf |-> TRUE,
                                              glyfOffset |-> 0,
                                              glyphOffsets |-> <<0, 0, Len(bytes)>>],
                                             1, 0, 1)]
    /\ UNCHANGED <<parser, probe, seen>>

NextSimple == ParseSimpleGlyph

SpecSimple == InitSimple /\ [][NextSimple]_vars

\* the running sum of the deltas of points 1..j
RECURSIVE RunningX(_, _)
RunningX(points, j) == IF j = 0 THEN 0 ELSE RunningX(points, j - 1) + points[j].dx.d

RECURSIVE RunningY(_, _)
RunningY(points, j) == IF j = 0 THEN 0 ELSE RunningY(points, j - 1) + points[j].dy.d

\* C24: a simple glyph of n contours with non-decreasing end-point indices
\* decodes to n contours, contour k holding the points e[k-1]+1 .. e[k] in
\* order (every point in exactly one contour), each point at the running
\* sums of the x and of the y deltas decoded up to it.
C24_SimpleGlyphPartition ==
  result.op = "parseSimpleGlyph" =>
    LET g == result.desc
        first(k) == IF k = 1 THEN 0 ELSE g.endPts[k - 1] + 1
        contours == result.ret.glyph.contours
    IN  /\ result.ret.st = "glyph"
        /\ Len(contours) = Len(g.endPts)
        /\ \A k \in 1..Len(g.endPts) :
             contours[k] = [j \in 1..(g.endPts[k] + 1 - first(k)) |->
                              Pt(RunningX(g.points, first(k) + j),
                                 RunningY(g.points, first(k) + j),
                                 g.points[first(k) + j].on = 1)]
        /\ SeqSum([k \in 1..Len(contours) |-> Len(contours[k])]) = Len(g.points)

\* a glyph of three contours, one of them empty, with a negative 16-bit
\* delta and a negative short delta, has been decoded
C24_Witness ==
  /\ result.op = "parseSimpleGlyph"
  /\ result.ret.st = "glyph"
  /\ Len(result.ret.glyph.contours) = 3
  /\ result.ret.glyph.contours[2] = <<>>
  /\ Len(result.ret.glyph.contours[3]) = 2
  /\ result.ret.glyph.contours[3][2].x < 0 - 256
  /\ result.ret.glyph.contours[3][2].y < 0

(***************************************************************************)
(* The path emitter on contours of up to MaxContourLen points, each        *)
(* on-curve, off-curve or cubic, at fixed places.                          *)
(***************************************************************************)
MaxContourLen == 4

PlaceX == <<0, 10, 10, 3, 0 - 5>>

PlaceY == <<0, 0, 7, 11, 4>>

PlacedPoint(j, kind) ==
  IF kind = "cubic"
  THEN CubicPt(PlaceX[j], PlaceY[j], PlaceX[j] + 1, PlaceY[j] - 2, PlaceX[j] - 3, PlaceY[j] + 4)
  ELSE Pt(PlaceX[j], PlaceY[j], kind = "on")

ContourChoices ==
  UNION {{[j \in 1..n |-> PlacedPoint(j, kinds[j])] :
            kinds \in [1..n -> {"on", "off", "cubic"}]} : n \in 1..MaxContourLen}

NoPath(points, k) == [op |-> "new", points |-> points, opt |-> k, path |-> <<>>]

InitContour ==
  /\ parser = NewParser
  /\ result \in {NoPath(points, k) : points \in ContourChoices, k \in 1..Len(PathOpts)}
  /\ probe \in {<<"A", 1>>}
  /\ seen = NotSeen

ContourToSVGPath ==
  /\ result.op = "new"
  /\ result' = [result EXCEPT !.op = "contourToSVGPath",
                              !.path = contourToSVGPath(result.points,
                                                        PathOpts[result.opt])]
  /\ UNCHANGED <<parser, probe, seen>>

NextContour == ContourToSVGPath

SpecContour == InitContour /\ [][NextContour]_vars

\* the segment rule, point by point, in doubled coordinates: ring is the
\* contour behind its on-curve start point
SegmentRule(points, opt) ==
  LET d == [j \in 1..Len(points) |-> scalePoint(points[j], 2, 2)]
      halfway(a, b) == Pt((a.x + b.x) \div 2, (a.y + b.y) \div 2, TRUE)
      ring == IF d[1].onCurve THEN d
              ELSE IF d[Len(d)].onCurve THEN <<d[Len(d)]>> \o d
              ELSE <<halfway(d[Len(d)], d[1])>> \o d
      after(i) == ring[(i % Len(ring)) + 1]
      at(o, pt, c1x, c1y, c2x, c2y) ==
        SvgCmd(o, coordX(pt.x, opt), coordY(pt.y, opt), c1x, c1y, c2x, c2y)
      segment(i) ==
        IF ~ring[i].onCurve
        THEN <<at("Q", IF after(i).onCurve THEN after(i) ELSE halfway(ring[i], after(i)),
                  coordX(ring[i].x, opt), coordY(ring[i].y, opt), 0, 0)>>
        ELSE IF ~ring[i - 1].onCurve THEN <<>>
        ELSE IF ring[i].cubic
        THEN <<at("C", ring[i], coordX(ring[i].x1, opt), coordY(ring[i].y1, opt),
                  coordX(ring[i].x2, opt), coordY(ring[i].y2, opt))>>
        ELSE <<at("L", ring[i], 0, 0, 0, 0)>>
  IN  <<at("M", ring[1], 0, 0, 0, 0)>>
      \o Flatten([k \in 1..(Len(ring) - 1) |-> segment(k + 1)])
      \o <<SvgCmd("Z", 0, 0, 0, 0, 0, 0)>>

\* C25: behind its on-curve start point a contour is walked once: every
\* off-curve point is the control point of exactly one Q, which ends at the
\* next point when that one is on-curve (and consumes it) and at the midpoint
\* of the two when it is off-curve too (the second point being the control
\* point of the next Q); every other on-curve point gives one L, or one C
\* when it is cubic; Z ends the walk.
C25_SegmentRule ==
  result.op = "contourToSVGPath" =>
    /\ result.path = SegmentRule(result.points, PathOpts[result.opt])
    /\ CountOp(result.path, "Q")
         = Cardinality({j \in 1..Len(result.points) : ~result.points[j].onCurve})
    /\ Last(result.path).op = "Z"

\* a contour that starts and ends off-curve, with two off-curve points in a
\* row and a cubic point consumed as the end of a Q, has been walked
C25_Witness ==
  /\ result.op = "contourToSVGPath"
  /\ Len(result.points) = 4
  /\ ~result.points[1].onCurve /\ ~result.points[2].onCurve
  /\ result.points[3].cubic /\ ~result.points[4].onCurve
  /\ CountOp(result.path, "Q") = 3
  /\ Len(result.path) = 5

(***************************************************************************)
(* cmap subtables, byte by byte.  A decoding is [map, err]: the entries    *)
(* stored in charToGlyph (code point -> glyph index) and the Error thrown. *)
(***************************************************************************)
RECURSIVE readInt16Array(_, _, _)
readInt16Array(buf, o, n) ==
  IF n = 0 THEN Ret(<<>>, o)
  ELSE LET r == readInt16(buf, o)
       IN  IF ~r.ok THEN r
           ELSE LET rest == readInt16Array(buf, r.off, n - 1)
                IN  IF ~rest.ok THEN rest
                    ELSE Ret(<<r.val>> \o rest.val, rest.off)

Mapped(m, e) == [map |-> m, err |-> e]

\* the segment loops of _parseCmapFormat4 from code point c of segment i on
\* (0-based i)
RECURSIVE cmap4Segments(_, _, _, _, _, _, _, _, _)
cmap4Segments(buf, endCode, startCode, idDelta, idRangeOffsetStart, idRangeOffset, i, c, map) ==
  IF i >= Len(endCode) THEN Mapped(map, "none")
  ELSE IF c > endCode[i + 1]
  THEN cmap4Segments(buf, endCode, startCode, idDelta, idRangeOffsetStart,
                     idRangeOffset, i + 1,
                     IF i + 1 < Len(startCode) THEN startCode[i + 2] ELSE 0, map)
  ELSE
  LET stored(glyphIndex) ==
        cmap4Segments(buf, endCode, startCode, idDelta, idRangeOffsetStart,
                      idRangeOffset, i, c + 1,
                      IF glyphIndex # 0 THEN (c :> glyphIndex) @@ map ELSE map)
      fromArray(sk) ==
        IF ~sk.ok THEN Mapped(map, sk.err)
        ELSE LET glyphIndexFromArray == readUint16(buf, sk.off)
             IN  IF ~glyphIndexFromArray.ok THEN Mapped(map, glyphIndexFromArray.err)
                 ELSE stored(IF glyphIndexFromArray.val # 0
                             THEN (glyphIndexFromArray.val + idDelta[i + 1] + 65536) % 65536
                             ELSE 0)
  IN  IF idRangeOffset[i + 1] = 0
      THEN stored((c + idDelta[i + 1] + 65536) % 65536)
      ELSE fromArray(seek(buf, idRangeOffsetStart + i * 2 + idRangeOffset[i + 1]
                                 + (c - startCode[i + 1]) * 2))

\* o is this.offset after the format field
_parseCmapFormat4(buf, o) ==
  LET segCountX2 == readUint16(buf, o + 4)
      segCount == segCountX2.val \div 2
      endCode == readUint16Array(buf, segCountX2.off + 6, segCount)
      reservedPad == readUint16(buf, endCode.off)
      startCode == readUint16Array(buf, reservedPad.off, segCount)
      idDelta == readInt16Array(buf, startCode.off, segCount)
      idRangeOffset == readUint16Array(buf, idDelta.off, segCount)
  IN  IF ~segCountX2.ok THEN Mapped(EmptyMap, segCountX2.err)
      ELSE IF ~endCode.ok THEN Mapped(EmptyMap, endCode.err)
      ELSE IF ~reservedPad.ok THEN Mapped(EmptyMap, reservedPad.err)
      ELSE IF ~startCode.ok THEN Mapped(EmptyMap, startCode.err)
      ELSE IF ~idDelta.ok THEN Mapped(EmptyMap, idDelta.err)
      ELSE IF ~idRangeOffset.ok THEN Mapped(EmptyMap, idRangeOffset.err)
      ELSE cmap4Segments(buf, endCode.val, startCode.val, idDelta.val, idDelta.off,
                         idRangeOffset.val, 0,
                         IF segCount > 0 THEN startCode.val[1] ELSE 0, EmptyMap)

\* the group loop of _parseCmapFormat12 from group i on, the cursor at o
RECURSIVE cmap12Groups(_, _, _, _, _)
cmap12Groups(buf, o, numGroups, i, map) ==
  IF i >= numGroups THEN Mapped(map, "none")
  ELSE LET startCharCode == readUint32(buf, o)
           endCharCode == readUint32(buf, startCharCode.off)
           startGlyphID == readUint32(buf, endCharCode.off)
       IN  IF ~startCharCode.ok THEN Mapped(map, startCharCode.err)
           ELSE IF ~endCharCode.ok THEN Mapped(map, endCharCode.err)
           ELSE IF ~startGlyphID.ok THEN Mapped(map, startGlyphID.err)
           ELSE cmap12Groups(buf, startGlyphID.off, numGroups, i + 1,
                             [c \in startCharCode.val..endCharCode.val |->
                                startGlyphID.val + (c - startCharCode.val)] @@ map)

\* o is this.offset after the format field: eight bytes are skipped and the
\* group count is read from the four bytes that follow
_parseCmapFormat12(buf, o) ==
  LET numGroups == readUint32(buf, o + 8)
  IN  IF ~numGroups.ok THEN Mapped(EmptyMap, numGroups.err)
      ELSE cmap12Groups(buf, numGroups.off, numGroups.val, 0, EmptyMap)

_parseCmapSubtable(buf, offset) ==
  LET sk == seek(buf, offset)
      format == readUint16(buf, sk.off)
  IN  IF ~sk.ok THEN Mapped(EmptyMap, sk.err)
      ELSE IF ~format.ok THEN Mapped(EmptyMap, format.err)
      ELSE IF format.val = 4 THEN _parseCmapFormat4(buf, format.off)
      ELSE IF format.val = 12 THEN _parseCmapFormat12(buf, format.off)
      ELSE Mapped(EmptyMap, "UnsupportedCmapFormat")

(***************************************************************************)
(* cmap subtables from their description.  A format-4 segment is [start,   *)
(* end, delta, array] (array: its glyphIdArray entries, empty when         *)
(* idRangeOffset is 0); a format-12 group is [start, end, glyph].          *)
(***************************************************************************)
U16(v) == <<v \div 256, v % 256>>

U32(v) == <<v \div 16777216, (v \div 65536) % 256, (v \div 256) % 256, v % 256>>

Segment(s, e, d, a) == [start |-> s, end |-> e, delta |-> d, array |-> a]

\* glyphs 1..3; glyphs 0..2; an array with a 0 entry; an array whose first
\* entry plus idDelta is 0; the closing segment, (0xFFFF + 1) & 0xFFFF = 0
SegmentChoices ==
  {Segment(65, 67, 0 - 64, <<>>), Segment(65, 67, 0 - 65, <<>>),
   Segment(70, 71, 0, <<0, 5>>), Segment(70, 71, 0 - 3, <<3, 4>>),
   Segment(65535, 65535, 1, <<>>)}

RECURSIVE ArrayEntriesBefore(_, _)
ArrayEntriesBefore(segs, i) ==
  IF i <= 1 THEN 0 ELSE ArrayEntriesBefore(segs, i - 1) + Len(segs[i - 1].array)

Format4Bytes(segs) ==
  LET n == Len(segs)
      each(F(_)) == Flatten([i \in 1..n |-> F(i)])
      endCode(i) == U16(segs[i].end)
      startCode(i) == U16(segs[i].start)
      idDelta(i) == U16((segs[i].delta + 65536) % 65536)
      idRangeOffset(i) ==
        U16(IF segs[i].array = <<>> THEN 0
            ELSE 2 * (n - i + 1) + 2 * ArrayEntriesBefore(segs, i))
      glyphIdArray(i) == Flatten([k \in 1..Len(segs[i].array) |-> U16(segs[i].array[k])])
  IN  U16(4) \o U16(0) \o U16(0) \o U16(2 * n) \o <<0, 0, 0, 0, 0, 0>>
      \o each(endCode) \o U16(0) \o each(startCode) \o each(idDelta)
      \o each(idRangeOffset) \o each(glyphIdArray)

Group(s, e, g) == [start |-> s, end |-> e, glyph |-> g]

GroupChoices == {Group(65, 67, 1), Group(65, 66, 0), Group(70, 70, 0)}

GroupBytes(groups) ==
  Flatten([i \in 1..Len(groups) |->
             U32(groups[i].start) \o U32(groups[i].end) \o U32(groups[i].glyph)])

\* format, reserved, length, language, numGroups, groups
Format12Bytes(groups) ==
  U16(12) \o U16(0) \o U32(16 + 12 * Len(groups)) \o U32(0) \o U32(Len(groups))
  \o GroupBytes(groups)

\* a subtable of 65536 + k declared groups whose bytes from byte 10 on read
\* as a group count and groups: the language field's low half and the group
\* count's high half hold the count read, the groups follow from byte 14 on
Format12BytesAsRead(groups) ==
  U16(12) \o U16(0) \o U32(14 + 12 * Len(groups)) \o U16(0) \o U32(Len(groups))
  \o GroupBytes(groups)

CmapSubtables ==
  UNION {{Format4Bytes(segs) : segs \in [1..n -> SegmentChoices]} : n \in 1..2}
  \cup UNION {{Format12Bytes(groups) : groups \in [1..n -> GroupChoices]} : n \in 0..2}
  \cup UNION {{Format12BytesAsRead(groups) : groups \in [1..n -> GroupChoices]} :
                n \in 1..3}
  \cup {U16(6) \o U16(0), SubSeq(Format4Bytes(<<Segment(65, 67, 0 - 64, <<>>)>>), 1, 20)}

NoSubtable(bytes) == [op |-> "new", data |-> bytes, map |-> EmptyMap, err |-> "none"]

InitCmapSub ==
  /\ parser = NewParser
  /\ result \in {NoSubtable(bytes) : bytes \in CmapSubtables}
  /\ probe \in {<<"A", 1>>}
  /\ seen = NotSeen

ParseCmapSubtable ==
  \E r \in {_parseCmapSubtable(result.data, 0)} :
    /\ result.op = "new"
    /\ result' = [result EXCEPT !.op = "_parseCmapSubtable", !.map = r.map,
                                !.err = r.err]
    /\ UNCHANGED <<parser, probe, seen>>

NextCmapSub == ParseCmapSubtable

SpecCmapSub == InitCmapSub /\ [][NextCmapSub]_vars

\* C26: no entry of a character map built from a format-4 or a format-12
\* subtable has glyph index 0: a code point whose glyph index comes out as 0
\* is left unmapped.
C26_NoZeroGlyph ==
  result.op = "_parseCmapSubtable" =>
    \A c \in DOMAIN result.map : result.map[c] # 0

(***************************************************************************)
(* The glyph cache and the axis values (over the variable fonts).          *)
(***************************************************************************)
\* the contours of glyph glyphId decoded from the loaded buffer, x scaled by
\* wdth/100 and y by 1 + (wght - 150)/1500 for the current axis values (100
\* and 150 where the font has no such axis), over XDen and YDen
BlendedOnce(p, glyphId) ==
  LET wdth == IF p.isVariableFont /\ "wdth" \in DOMAIN p.currentAxisValues
              THEN p.currentAxisValues["wdth"] ELSE 100
      wght == IF p.isVariableFont /\ "wght" \in DOMAIN p.currentAxisValues
              THEN p.currentAxisValues["wght"] ELSE 150
      scaled(base) ==
        [c \in 1..Len(base) |->
           [j \in 1..Len(base[c]) |->
              [base[c][j] EXCEPT !.x = @ * wdth, !.y = @ * (1350 + wght)]]]
  IN  scaled(decodeGlyph(p, glyphId).glyph.contours)

FailedLoadFonts ==
  {Fonts.ttf, Fonts.var, Fonts.otf, Fonts.nohead, Fonts.noglyf, Fonts.cmap6, Fonts.short}

NextFailedLoad ==
  \/ \E f \in FailedLoadFonts : Load(f)
  \/ \E c \in {"A", "B"} : PathFor(c, 1)
  \/ \E t \in {<<"A", "B">>, <<"A">>} :
       LayoutText(t, [size |-> 1000, kerning |-> 0, variable |-> EmptyMap])

SpecFailedLoad == Init /\ [][NextFailedLoad]_vars

\* C28: a fromBuffer call that failed with a structural error leaves the
\* parser without a usable font: the layoutText call that follows it is
\* refused with the 'No font loaded' error.
C28_FailedLoadLeavesNoFont ==
  [][(result.op = "fromBuffer" /\ result.err # "none" /\ result'.op = "layoutText")
       => result'.err = "NoFontLoaded"]_vars

(***************************************************************************)
(* Paths and bounds: TrueType glyphs that start off-curve, a composite, a  *)
(* variable font, CFF glyphs with curves whose control points lie outside  *)
(* the on-curve points, and a CFF glyph with a moveto short of an operand. *)
(***************************************************************************)
BoundsCharStrings ==
  { <<149, 149, 21, 159, 169, 134, 144, 129, 109, 8, 14>>,
    <<149, 149, 21, 144, 139, 5, 129, 159, 5, 14>>,
    <<100, 21, 144, 139, 5, 14>> }

BoundsFonts ==
  {Fonts.ttf, Fonts.var}
  \cup {[Fonts.ttf EXCEPT !.bytes = g, !.loca = <<0, 0, Len(g)>>, !.cmap = ("A" :> 1)] :
          g \in {SimpleGlyphBytes(<<2>>, <<0, 0, 0>>), SimpleGlyphBytes(<<2>>, <<0, 1, 0>>),
                 SimpleGlyphBytes(<<0, 2>>, <<0, 0, 1>>)}}
  \cup {[Fonts.otf EXCEPT !.cff = [GoodCff EXCEPT !.charStrings = << <<14>>, c >>],
                          !.cmap = ("A" :> 1)] : c \in BoundsCharStrings}

NextBounds ==
  \/ \E f \in BoundsFonts : Load(f)
  \/ \E c \in {"A", "B"}, k \in 1..Len(PathOpts) : PathFor(c, k)
  \/ \E c \in {"A", "B"}, k \in 1..Len(PathOpts) : BoundsFor(c, k)

SpecBounds == Init /\ [][NextBounds]_vars

\* the coordinate pairs of a path command: its point and its control points
CommandPairs(cmd) ==
  IF cmd.op = "Z" THEN {}
  ELSE IF cmd.op = "Q" THEN {<<cmd.x, cmd.y>>, <<cmd.x1, cmd.y1>>}
  ELSE IF cmd.op = "C" THEN {<<cmd.x, cmd.y>>, <<cmd.x1, cmd.y1>>, <<cmd.x2, cmd.y2>>}
  ELSE {<<cmd.x, cmd.y>>}

PathPairs(cmds) == UNION {CommandPairs(cmds[k]) : k \in 1..Len(cmds)}

InsideBounds(cmds, b) ==
  /\ ~b.isNull
  /\ \A pair \in PathPairs(cmds) :
       /\ pair[1] # NaN /\ b.minX <= pair[1] /\ pair[1] <= b.maxX
       /\ pair[2] # NaN /\ b.minY <= pair[2] /\ pair[2] <= b.maxY

\* the path and the bounds of the last pathFor or boundsFor call, the other
\* of the two computed for the same character and options
LastPath ==
  IF result.op = "pathFor" THEN result.path
  ELSE glyphToSVGPath(parser, result.char, PathOpts[result.opt]).ret

LastBounds ==
  IF result.op = "boundsFor" THEN result.bounds
  ELSE getGlyphBounds(parser, result.char, PathOpts[result.opt]).ret

Rendered == result.op \in {"pathFor", "boundsFor"} /\ result.err = "none"

\* every point of the glyph the last call rendered has numbers for coordinates
NumericGlyph ==
  LET numeric(r) ==
        \A pt \in {Flatten(r.ret.glyph.contours)[k] :
                     k \in 1..Len(Flatten(r.ret.glyph.contours))} :
          /\ pt.x # NaN /\ pt.y # NaN
          /\ pt.cubic => (pt.x1 # NaN /\ pt.y1 # NaN /\ pt.x2 # NaN /\ pt.y2 # NaN)
  IN  numeric(parseGlyph(parser, getGlyphId(parser, result.char)))

\* C29 as stated: for any glyph and any options every coordinate pair of the
\* pathFor commands lies inside the rectangle boundsFor returns for the same
\* character and options.
C29_PathInsideBounds ==
  (Rendered /\ LastPath # <<>>) => InsideBounds(LastPath, LastBounds)

\* C29: for a glyph whose points have numbers for coordinates and any
\* options, every coordinate pair of the pathFor commands (end points,
\* control points, implied midpoints, the synthesized start point) lies
\* inside the rectangle boundsFor returns for the same character and options.
C29_NumericPathInsideBounds ==
  (Rendered /\ LastPath # <<>> /\ NumericGlyph) => InsideBounds(LastPath, LastBounds)

\* boundsFor has answered for a CFF glyph with a curve whose control points
\* lie above its end points, and the curve is in the path
C29_Witness ==
  /\ result.op = "boundsFor" /\ result.err = "none" /\ ~result.bounds.isNull
  /\ parser.fontType = "cff"
  /\ NumericGlyph
  /\ \E k \in 1..Len(LastPath) :
       /\ LastPath[k].op = "C"
       /\ \A j \in 1..Len(LastPath) :
            LastPath[j].op # "Z" => LastPath[k].y2 < LastPath[j].y
       /\ LastPath[k].y2 = result.bounds.minY

(***************************************************************************)
(* Layout and the viewBox: fonts of 10 units per em, so that the padding   *)
(* of a tenth of the size is one font unit per unit of scale.  One font    *)
(* has the triangle inside its advance width, one has an advance width     *)
(* narrower than the triangle, one has a glyph that starts left of the     *)
(* origin (left side bearing -5).                                          *)
(***************************************************************************)
GlyfLeftOfOrigin ==
  DescribedGlyphBytes(
    [points |-> <<[dx |-> ShortDelta(0 - 5), dy |-> SameDelta, on |-> 1],
                  [dx |-> ShortDelta(15), dy |-> SameDelta, on |-> 1],
                  [dx |-> SameDelta, dy |-> ShortDelta(10), on |-> 1]>>,
     endPts |-> <<2>>, packed |-> FALSE])

ViewBoxFonts ==
  [inside |-> [Fonts.ttf EXCEPT !.unitsPerEm = 10],
   narrow |-> [Fonts.ttf EXCEPT !.unitsPerEm = 10,
                                !.hmtx = <<[advanceWidth |-> 5, leftSideBearing |-> 0],
                                           [advanceWidth |-> 5, leftSideBearing |-> 0],
                                           [advanceWidth |-> 5, leftSideBearing |-> 0]>>],
   left |-> [Fonts.ttf EXCEPT !.unitsPerEm = 10,
                              !.hmtx = <<[advanceWidth |-> 5, leftSideBearing |-> 0],
                                         [advanceWidth |-> 12, leftSideBearing |-> 0 - 5]>>,
                              !.bytes = GlyfLeftOfOrigin,
                              !.loca = <<0, 0, Len(GlyfLeftOfOrigin)>>,
                              !.cmap = ("A" :> 1)]]

ViewBoxTexts == {<<"A">>, <<"A", "B">>, <<"B", "A">>, <<"A", " ", "A">>}

ViewBoxOpts ==
  {[size |-> s, kerning |-> k, variable |-> EmptyMap] : s \in {10, 20}, k \in {0, 1}}

NextViewBox ==
  \/ \E f \in {ViewBoxFonts.inside, ViewBoxFonts.narrow, ViewBoxFonts.left} : Load(f)
  \/ \E c \in {"A", "B"} : PathFor(c, 1)
  \/ \E t \in ViewBoxTexts, o \in ViewBoxOpts : LayoutText(t, o)

SpecViewBox == Init /\ [][NextViewBox]_vars

InsideViewBox(cmds, vb) ==
  \A pair \in PathPairs(cmds) :
    /\ pair[1] # NaN /\ vb.x <= pair[1] /\ pair[1] <= vb.x + vb.width
    /\ pair[2] # NaN /\ vb.y <= pair[2] /\ pair[2] <= vb.y + vb.height

\* C30: every path coordinate of every character result of layoutText lies
\* inside the returned viewBox (x, y, x + width, y + height), also for a
\* glyph with a negative left side bearing or an outline wider than its
\* advance width.
C30_PathsInsideViewBox ==
  (result.op = "layoutText" /\ result.err = "none")
    => \A k \in 1..Len(result.layout.characters) :
         InsideViewBox(result.layout.characters[k].path, result.layout.viewBox)

\* the same for the font whose outlines lie between the origin and the
\* advance width
C30_InsideWhenWithinAdvance ==
  (result.op = "layoutText" /\ result.err = "none"
     /\ parser.buffer = ViewBoxFonts.inside)
    => /\ result.layout.characters # <<>>
       /\ \A k \in 1..Len(result.layout.characters) :
            InsideViewBox(result.layout.characters[k].path, result.layout.viewBox)

=============================================================================
